---------------------------- MODULE Spec2Model ----------------------------
(***************************************************************************)
(* A model of the monadio library: the narrowing chain (Narrow.switch),    *)
(* the discriminated-union matcher (Narrow.discriminate) and the Maybe     *)
(* monad.  Every component is a client that calls the library's            *)
(* operations with inputs drawn from small sets; the operations are        *)
(* operators translated from the TypeScript method bodies.                 *)
(***************************************************************************)
EXTENDS Integers, Sequences, FiniteSets, TLC

(***************************************************************************)
(* JavaScript values.  A value is a record [k, n, items]: k is the result  *)
(* of typeof (with "null", "array" and "maybe" told apart from "object"),  *)
(* n tells values of one kind apart (for a Maybe it is the instance's      *)
(* address on the heap), items holds the elements of an array.             *)
(***************************************************************************)
Val(k, n) == [k |-> k, n |-> n, items |-> <<>>]
Undefined == Val("undefined", 0)
Null == Val("null", 0)
NoField == Val("absent", 0)
Num(n) == Val("number", n)
Str(n) == Val("string", n)
Obj(n) == Val("object", n)
Sym(n) == Val("symbol", n)
Fn(n) == Val("function", n)
Arr(items) == [k |-> "array", n |-> 0, items |-> items]

IsNullish(v) == v.k \in {"undefined", "null"}

\* `${value}`: ToString throws a TypeError for a Symbol.
TemplateThrows(v) == v.k = "symbol"

(***************************************************************************)
(* The user-supplied functions the clients pass in, by number, and what a  *)
(* call of each returns.                                                   *)
(***************************************************************************)
FnName == Fn(1)     \* (v) => v.name
FnVoid == Fn(2)     \* () => {}
FnZero == Fn(3)     \* () => 0
FnEcho == Fn(4)     \* (v) => v
\* Object.prototype.toString, called without a receiver: "[object Undefined]"
FnToString == Fn(5)
\* Object.prototype.constructor, that is Object: Object(v) is v for an object
FnObject == Fn(6)
FnNull == Fn(7)     \* () => null
FnOne == Fn(8)      \* () => 1
FnThrow == Fn(9)    \* () => { throw new Error(...) }
FnSome == Fn(10)    \* (v) => Maybe.Some(v)
FnNone == Fn(11)    \* () => Maybe.None()

Call(f, arg) ==
    CASE f = FnName -> Str(arg.n)
      [] f = FnVoid -> Undefined
      [] f = FnZero -> Num(0)
      [] f = FnEcho -> arg
      [] f = FnToString -> Str(100)
      [] f = FnObject -> arg
      [] f = FnNull -> Null
      [] f = FnOne -> Num(1)

\* Object.prototype: what every object literal inherits.
ObjectPrototype ==
    [toString |-> FnToString, constructor |-> FnObject, __proto__ |-> Obj(0)]

\* obj[key] for an object literal with the own properties `own`: the own
\* property, else the inherited one, else undefined.
Get(own, key) ==
    IF key \in DOMAIN own THEN own[key]
    ELSE IF key \in DOMAIN ObjectPrototype THEN ObjectPrototype[key]
    ELSE Undefined

VARIABLES
    switched,       \* the value given to Narrow.switch
    state,          \* the state of the chain's last NarrowSwitch instance
    TNarrowed,      \* its type parameter: the variants not yet removed
    chain,          \* the case calls made so far
    fallbackCalls,  \* how many times the terminal's fallback was invoked
    ret,            \* the terminal called and its outcome
    discriminated,  \* the NarrowDiscriminate instance: value, discriminator
    matches,        \* the match calls made on it, each with its outcome
    heap,           \* the Maybe instances made so far, by address
    last,           \* the last call that returned a Maybe, with its arguments
    accessed,       \* the last accessor call (unwrap, dump) and its outcome
    current,        \* the Result the chain of calls has reached
    steps,          \* how many calls returned a Result so far
    rcall,          \* the last call that makes a Result, with its outcome
    asked,          \* the accessor then called on that Result, and its outcome
    pipeInit,       \* the value given to Pipe.create
    pipe,           \* the value the chain's last Pipe holds
    pipeCalls,      \* the map and effect calls of the chain, in order
    pipeLog,        \* the user functions invoked so far, in order
    pipeOut,        \* what unwrap() returned
    procs,          \* the Procedure instances made so far, by address
    builds,         \* for each of them, the call that made it
    runs,           \* the run calls made so far, each with its outcome
    instances,      \* the NarrowSwitch instances made so far, by address
    probe           \* the terminal called on one of them, and its outcome

switchVars == <<switched, state, TNarrowed, chain, fallbackCalls, ret>>
discriminateVars == <<discriminated, matches>>
maybeVars == <<heap, last, accessed>>
resultVars == <<current, steps, rcall, asked>>
pipeVars == <<pipeInit, pipe, pipeCalls, pipeLog, pipeOut>>
procedureVars == <<procs, builds, runs>>
forkVars == <<instances, probe>>
vars == <<switchVars, discriminateVars, maybeVars, resultVars, pipeVars,
          procedureVars, forkVars>>

(***************************************************************************)
(* lib/_util.ts                                                            *)
(***************************************************************************)
\* Mutant: the mapper is returned as it is, never invoked.
applyValueOrMapper_neverCalls(valueOrMapper, value) ==
    [value |-> valueOrMapper, calls |-> 0]

\* The value, and how many times the mapper was invoked.
applyValueOrMapper(valueOrMapper, value) ==
    IF valueOrMapper.k = "function"
    THEN [value |-> Call(valueOrMapper, value), calls |-> 1]
    ELSE [value |-> valueOrMapper, calls |-> 0]

(***************************************************************************)
(* lib/errors.ts                                                           *)
(***************************************************************************)
\* new NarrowError(value): the message is built with a template literal
\* before the value field is set.
NarrowError(value) ==
    IF TemplateThrows(value)
    THEN [error |-> "TypeError", value |-> NoField]
    ELSE [error |-> "NarrowError", value |-> value]

(***************************************************************************)
(* lib/narrow/narrow-switch.ts                                             *)
(***************************************************************************)
User == Obj(1)
Admin == Obj(2)
Guest == Obj(3)
\* A value the declared union AnyUser does not list.
RogueObj == Obj(4)
RogueSym == Sym(1)

AnyUser == {User, Admin, Guest}
SwitchInputs == AnyUser \cup {RogueObj, RogueSym}

\* The narrowing predicates a client passes to case, each as the set of
\* values it returns true for.
NarrowFns ==
    {{User}, {Admin}, {Guest}, {User, Admin}, SwitchInputs, {}}
MapFns == {FnName, FnVoid, FnZero}
Fallbacks == {Str(0), FnEcho, FnZero}

MaxCases == 3

Searching(value) == [done |-> FALSE, value |-> value, result |-> NoField]
Matched(result) == [done |-> TRUE, value |-> NoField, result |-> result]

\* Mutant: the narrowed-to type is kept instead of removed.
Exclude_keeps(T, U) == T \cap U

\* Exclude<TNarrowed, U>
Exclude(T, U) == T \ U

\* IsNever<TValue, TTrue, TFalse>
IsNever(TValue, TTrue, TFalse) == IF TValue = {} THEN TTrue ELSE TFalse

\* The declared types of the three terminals: whether each is callable.
defaultCallable(T) == IsNever(T, FALSE, TRUE)
exhaustCallable(T) == IsNever(T, TRUE, FALSE)
exhaustUnsafeCallable(T) == IsNever(T, TRUE, FALSE)

\* Mutant: the value is kept after a match and the done flag is not
\* consulted, so a later matching case replaces the result.
switchCase_ignoresDone(st, narrowFn, mapFn) ==
    LET value == switched
    IN  IF value \in narrowFn
        THEN [state |-> Matched(Call(mapFn, value)),
              narrowCalls |-> 1, mapCalls |-> 1]
        ELSE [state |-> st, narrowCalls |-> 1, mapCalls |-> 0]

\* Mutant: mapFn is evaluated before the predicate is consulted.
switchCase_eagerMap(st, narrowFn, mapFn) ==
    IF ~st.done
    THEN IF st.value \in narrowFn
         THEN [state |-> Matched(Call(mapFn, st.value)),
               narrowCalls |-> 1, mapCalls |-> 1]
         ELSE [state |-> st, narrowCalls |-> 1, mapCalls |-> 1]
    ELSE [state |-> st, narrowCalls |-> 0, mapCalls |-> 0]

\* Mutant: the chain counts as matched only while its result is truthy.
switchCase_byResult(st, narrowFn, mapFn) ==
    IF ~st.done \/ st.result \in {Undefined, Null, Num(0)}
    THEN IF switched \in narrowFn
         THEN [state |-> Matched(Call(mapFn, switched)),
               narrowCalls |-> 1, mapCalls |-> 1]
         ELSE [state |-> st, narrowCalls |-> 1, mapCalls |-> 0]
    ELSE [state |-> st, narrowCalls |-> 0, mapCalls |-> 0]

\* case(narrowFn, mapFn): the state of the instance it returns, and how
\* many times it invoked narrowFn and mapFn.
switchCase(st, narrowFn, mapFn) ==
    IF ~st.done
    THEN IF st.value \in narrowFn
         THEN [state |-> Matched(Call(mapFn, st.value)),
               narrowCalls |-> 1, mapCalls |-> 1]
         ELSE [state |-> st, narrowCalls |-> 1, mapCalls |-> 0]
    ELSE [state |-> st, narrowCalls |-> 0, mapCalls |-> 0]

\* Mutant: the fallback is evaluated before the done flag is consulted.
fallbackImpl_eager(st, fallback) ==
    LET r == applyValueOrMapper(fallback, st.value)
    IN  IF st.done THEN [value |-> st.result, calls |-> r.calls] ELSE r

fallbackImpl(st, fallback) ==
    IF st.done
    THEN [value |-> st.result, calls |-> 0]
    ELSE applyValueOrMapper(fallback, st.value)

exhaustUnsafeImpl(st) ==
    IF st.done
    THEN [kind |-> "return", value |-> st.result, error |-> "none"]
    ELSE LET e == NarrowError(st.value)
         IN  [kind |-> "throw", value |-> e.value, error |-> e.error]

NoRet ==
    [op |-> "none", fallback |-> NoField, kind |-> "none", value |-> NoField,
     error |-> "none"]

\* No narrowing chain has been started.
NoSwitch ==
    /\ switched = NoField
    /\ state = Searching(NoField)
    /\ TNarrowed = {}
    /\ chain = <<>>
    /\ fallbackCalls = 0
    /\ ret = NoRet

\* No NarrowDiscriminate instance has been made.
NoDiscriminate ==
    /\ discriminated = [value |-> NoField, discriminator |-> ""]
    /\ matches = <<>>

NoCall ==
    [op |-> "none", self |-> 0, arg |-> NoField, fn |-> NoField,
     narrowFn |-> {}, addr |-> 0, invoked |-> <<>>]
NoAccess ==
    [op |-> "none", self |-> 0, arg |-> NoField, fn |-> NoField,
     kind |-> "none", value |-> NoField, error |-> "none", invoked |-> <<>>]

\* No Maybe has been made.
NoMaybe ==
    /\ heap = <<>>
    /\ last = NoCall
    /\ accessed = NoAccess

NoRCall ==
    [op |-> "none", self |-> NoField, arg |-> NoField, fn |-> NoField,
     narrowFn |-> {}, kind |-> "none", value |-> NoField,
     thrown |-> NoField, invoked |-> <<>>]

NoAsk == [op |-> "none", arg |-> NoField, kind |-> "none", value |-> NoField,
          thrown |-> NoField, invoked |-> <<>>]

\* No Result has been made.
NoResult ==
    /\ current = NoField
    /\ steps = 0
    /\ rcall = NoRCall
    /\ asked = NoAsk

\* No Pipe has been made.
NoPipe ==
    /\ pipeInit = NoField
    /\ pipe = NoField
    /\ pipeCalls = <<>>
    /\ pipeLog = <<>>
    /\ pipeOut = NoField

\* No Procedure has been made.
NoProcedure ==
    /\ procs = <<>>
    /\ builds = <<>>
    /\ runs = <<>>

NoProbe ==
    [op |-> "none", self |-> 0, fallback |-> NoField, kind |-> "none",
     value |-> NoField, error |-> "none"]

\* No NarrowSwitch instance is kept for reuse.
NoFork ==
    /\ instances = <<>>
    /\ probe = NoProbe

\* Narrow.switch(value)
InitSwitch ==
    /\ switched \in SwitchInputs
    /\ state = Searching(switched)
    /\ TNarrowed = AnyUser
    /\ chain = <<>>
    /\ fallbackCalls = 0
    /\ ret = NoRet
    /\ NoDiscriminate
    /\ NoMaybe
    /\ NoResult
    /\ NoPipe
    /\ NoProcedure
    /\ NoFork

\* .case(narrowFn, mapFn); U is the type narrowFn narrows to.
Case(narrowFn, mapFn) ==
    /\ ret.op = "none"
    /\ Len(chain) < MaxCases
    /\ LET r == switchCase(state, narrowFn, mapFn)
           U == narrowFn \cap TNarrowed
       IN  /\ state' = r.state
           /\ TNarrowed' = Exclude(TNarrowed, U)
           /\ chain' = Append(chain, [narrowFn |-> narrowFn, mapFn |-> mapFn,
                                      U |-> U,
                                      narrowCalls |-> r.narrowCalls,
                                      mapCalls |-> r.mapCalls])
    /\ UNCHANGED <<switched, fallbackCalls, ret, discriminateVars, maybeVars,
                   resultVars, pipeVars,
                   procedureVars, forkVars>>

\* .default(fallback)
Default(fallback) ==
    /\ ret.op = "none"
    /\ defaultCallable(TNarrowed)
    /\ LET r == fallbackImpl(state, fallback)
       IN  /\ ret' = [op |-> "default", fallback |-> fallback,
                      kind |-> "return", value |-> r.value, error |-> "none"]
           /\ fallbackCalls' = fallbackCalls + r.calls
    /\ UNCHANGED <<switched, state, TNarrowed, chain, discriminateVars,
                   maybeVars, resultVars, pipeVars,
                   procedureVars, forkVars>>

\* .exhaust(fallback)
Exhaust(fallback) ==
    /\ ret.op = "none"
    /\ exhaustCallable(TNarrowed)
    /\ LET r == fallbackImpl(state, fallback)
       IN  /\ ret' = [op |-> "exhaust", fallback |-> fallback,
                      kind |-> "return", value |-> r.value, error |-> "none"]
           /\ fallbackCalls' = fallbackCalls + r.calls
    /\ UNCHANGED <<switched, state, TNarrowed, chain, discriminateVars,
                   maybeVars, resultVars, pipeVars,
                   procedureVars, forkVars>>

\* .exhaustUnsafe()
ExhaustUnsafe ==
    /\ ret.op = "none"
    /\ exhaustUnsafeCallable(TNarrowed)
    /\ LET r == exhaustUnsafeImpl(state)
       IN  ret' = [op |-> "exhaustUnsafe", fallback |-> NoField,
                   kind |-> r.kind, value |-> r.value, error |-> r.error]
    /\ UNCHANGED <<switched, state, TNarrowed, chain, fallbackCalls,
                   discriminateVars, maybeVars, resultVars, pipeVars,
                   procedureVars, forkVars>>

NextSwitch ==
    \/ \E narrowFn \in NarrowFns, mapFn \in MapFns : Case(narrowFn, mapFn)
    \/ \E fallback \in Fallbacks : Default(fallback)
    \/ \E fallback \in Fallbacks : Exhaust(fallback)
    \/ ExhaustUnsafe

SpecSwitch == InitSwitch /\ [][NextSwitch]_vars

(***************************************************************************)
(* Properties of the narrowing chain.                                      *)
(***************************************************************************)
\* The cases of the chain whose predicate holds for the switched value.
Holding == {i \in DOMAIN chain : switched \in chain[i].narrowFn}
\* The first of them, in chain order (0 when there is none).
FirstHolding ==
    IF Holding = {} THEN 0 ELSE CHOOSE i \in Holding : \A j \in Holding : i <= j
\* The terminal has been called.
Terminated == ret.op # "none"

\* C1: whichever terminal ends the chain, when some predicate holds for the
\* switched value the terminal returns the mapping of the first case, in
\* chain order, whose predicate holds, applied to that value.
C1_FirstMatchWins ==
    (Terminated /\ Holding # {}) =>
        /\ ret.kind = "return"
        /\ ret.value = Call(chain[FirstHolding].mapFn, switched)

\* Two cases with different mappings hold for the value, the first of them
\* is not the first case of the chain, and a terminal has returned.
C1_Witness ==
    /\ Terminated
    /\ Cardinality(Holding) >= 2
    /\ FirstHolding > 1
    /\ \E j \in Holding :
          Call(chain[j].mapFn, switched) # Call(chain[FirstHolding].mapFn, switched)

\* C2: once the chain is matched, a further case invokes neither its
\* narrowFn nor its mapFn and leaves the matched result in place, and a
\* terminal does not invoke its fallback.
C2_MatchedShortCircuits ==
    [][state.done =>
          /\ state' = state
          /\ fallbackCalls' = fallbackCalls
          /\ Len(chain') > Len(chain) =>
                /\ chain'[Len(chain')].narrowCalls = 0
                /\ chain'[Len(chain')].mapCalls = 0]_vars

\* The chain matched at its first case, a later case whose predicate holds
\* for the value followed, and default was called with a mapper.
C2_Witness ==
    /\ Len(chain) = 3
    /\ FirstHolding = 1
    /\ 3 \in Holding
    /\ ret.op = "default"
    /\ ret.fallback.k = "function"

\* The chain handles the three variants of AnyUser with three cases, each
\* recognising one variant.
ThreeMatchingCases ==
    /\ Len(chain) = 3
    /\ {chain[i].narrowFn : i \in DOMAIN chain} = {{User}, {Admin}, {Guest}}

\* C3: with three cases that each recognise one variant of the 3-variant
\* union, for every value of the union exactly one mapping function is
\* invoked, once.
C3_ExactlyOneMapFires ==
    (ThreeMatchingCases /\ switched \in AnyUser) =>
        \E i \in DOMAIN chain :
            /\ chain[i].mapCalls = 1
            /\ \A j \in DOMAIN chain \ {i} : chain[j].mapCalls = 0

\* The value is recognised by the last of the three cases and the chain was
\* ended with exhaust.
C3_Witness ==
    /\ ThreeMatchingCases
    /\ switched \in chain[3].narrowFn
    /\ chain[3].mapCalls = 1
    /\ ret.op = "exhaust"

\* C4: default and exhaust never throw; with no predicate holding they
\* return the fallback (the value itself, or the mapper applied to the
\* switched value), otherwise the first holding case's mapped result.
C4_FallbackTerminals ==
    ret.op \in {"default", "exhaust"} =>
        /\ ret.kind = "return"
        /\ ret.error = "none"
        /\ ret.value =
              IF Holding # {}
              THEN Call(chain[FirstHolding].mapFn, switched)
              ELSE IF ret.fallback.k = "function"
                   THEN Call(ret.fallback, switched)
                   ELSE ret.fallback

\* A value outside the union went through a fully narrowing chain and
\* exhaust returned what its mapper made of the switched value.
C4_Witness ==
    /\ ret.op = "exhaust"
    /\ Len(chain) >= 2
    /\ Holding = {}
    /\ ret.fallback = FnEcho
    /\ ret.value = switched

\* The first case whose predicate holds mapped the value to undefined, null
\* or 0.
MatchedFalsy ==
    /\ Holding # {}
    /\ Call(chain[FirstHolding].mapFn, switched) \in {Undefined, Null, Num(0)}

\* C28: a case whose predicate holds and whose mapFn returns a falsy value
\* ends the search all the same: the chain is done, the later cases invoke
\* neither narrowFn nor mapFn, default and exhaust return that falsy result
\* without invoking the fallback, and exhaustUnsafe returns it and does not
\* throw.
C28_DoneFlagNotResult ==
    MatchedFalsy =>
        /\ state = Matched(Call(chain[FirstHolding].mapFn, switched))
        /\ \A j \in DOMAIN chain :
              j > FirstHolding =>
                 chain[j].narrowCalls = 0 /\ chain[j].mapCalls = 0
        /\ Terminated =>
              /\ ret.kind = "return"
              /\ ret.value = Call(chain[FirstHolding].mapFn, switched)
              /\ fallbackCalls = 0

\* The first case mapped the value to undefined, a later case with another
\* mapping holds for the value too, and exhaustUnsafe returned undefined.
C28_Witness ==
    /\ FirstHolding = 1
    /\ chain[1].mapFn = FnVoid
    /\ \E j \in Holding : j > 1 /\ chain[j].mapFn = FnName
    /\ ret.op = "exhaustUnsafe"
    /\ ret.kind = "return"
    /\ ret.value = Undefined

\* C5: exhaustUnsafe returns the matched result when a case matched, and
\* otherwise throws a NarrowError whose value is the switched value.
C5_ExhaustUnsafe ==
    ret.op = "exhaustUnsafe" =>
        IF Holding # {}
        THEN /\ ret.kind = "return"
             /\ ret.value = Call(chain[FirstHolding].mapFn, switched)
        ELSE /\ ret.kind = "throw"
             /\ ret.error = "NarrowError"
             /\ ret.value = switched

\* The variants no preceding case has removed.
Residual == AnyUser \ UNION {chain[i].U : i \in DOMAIN chain}

\* C6: at every position of the chain default is callable exactly when the
\* residual union is non-empty and exhaust and exhaustUnsafe exactly when
\* it is empty; the type parameter is the residual union.
C6_TerminalAvailability ==
    /\ TNarrowed = Residual
    /\ defaultCallable(TNarrowed) <=> Residual # {}
    /\ exhaustCallable(TNarrowed) <=> Residual = {}
    /\ exhaustUnsafeCallable(TNarrowed) <=> Residual = {}
    /\ ~(defaultCallable(TNarrowed) /\ exhaustCallable(TNarrowed))
    /\ ret.op = "default" => Residual # {}
    /\ ret.op \in {"exhaust", "exhaustUnsafe"} => Residual = {}

\* Two cases removed User, Admin and then Guest, and exhaustUnsafe was
\* called where default no longer is callable.
C6_Witness ==
    /\ Len(chain) = 2
    /\ chain[1].U = {User, Admin}
    /\ chain[2].U = {Guest}
    /\ ~defaultCallable(TNarrowed)
    /\ ret.op = "exhaustUnsafe"

(***************************************************************************)
(* src/narrow/narrow-discriminate.ts                                       *)
(***************************************************************************)
\* An object whose discriminator property `key` holds k.
Keyed(k) == [k |-> "object", n |-> 0, items |-> <<>>, key |-> k]

\* The discriminators TestType1 declares.
DeclaredKeys == {"value1", "value2"}
\* The discriminators a value holds at run time: the declared ones, and
\* ones the declared type does not list.
RuntimeKeys == DeclaredKeys \cup {"value3", "toString", "constructor", "__proto__"}

\* The matcher objects: a function for every declared discriminator.
MapObjs == [DeclaredKeys -> {FnName, FnVoid}]
MatchFallbacks == {FnEcho, FnZero}

MaxMatches == 2

\* match(mapObj, fallback) on an instance holding value and discriminator:
\* the outcome, and the functions it invoked with their arguments.
match(value, discriminator, mapObj, fallback) ==
    LET key == value[discriminator]
        got == Get(mapObj, key)
        callee == IF IsNullish(got) THEN fallback ELSE got
    IN  IF callee.k = "function"
        THEN [kind |-> "return", value |-> Call(callee, value),
              error |-> "none",
              invoked |-> <<[fn |-> callee, arg |-> value]>>]
        ELSE [kind |-> "throw", value |-> NoField, error |-> "TypeError",
              invoked |-> <<>>]

InitDiscriminate ==
    /\ NoSwitch
    /\ NoDiscriminate
    /\ NoMaybe
    /\ NoResult
    /\ NoPipe
    /\ NoProcedure
    /\ NoFork

\* NarrowDiscriminate.discriminate(value, discriminator)
Discriminate(value, discriminator) ==
    /\ discriminated.value = NoField
    /\ discriminated' = [value |-> value, discriminator |-> discriminator]
    /\ UNCHANGED <<switchVars, matches, maybeVars, resultVars, pipeVars,
                   procedureVars, forkVars>>

\* .match(mapObj, fallback)
Match(mapObj, fallback) ==
    /\ discriminated.value # NoField
    /\ Len(matches) < MaxMatches
    /\ LET r == match(discriminated.value, discriminated.discriminator,
                      mapObj, fallback)
       IN  matches' = Append(matches,
                 [mapObj |-> mapObj, fallback |-> fallback, kind |-> r.kind,
                  value |-> r.value, error |-> r.error, invoked |-> r.invoked])
    /\ UNCHANGED <<switchVars, discriminated, maybeVars, resultVars, pipeVars,
                   procedureVars, forkVars>>

NextDiscriminate ==
    \/ \E k \in RuntimeKeys : Discriminate(Keyed(k), "key")
    \/ \E mapObj \in MapObjs, fallback \in MatchFallbacks : Match(mapObj, fallback)

SpecDiscriminate == InitDiscriminate /\ [][NextDiscriminate]_vars

(***************************************************************************)
(* Properties of the discriminated-union matcher.                          *)
(***************************************************************************)
\* The function the claim has a match call m invoke.
Chosen(m) ==
    LET k == discriminated.value[discriminated.discriminator]
    IN  IF k \in DOMAIN m.mapObj THEN m.mapObj[k] ELSE m.fallback

\* C7: every match call invokes exactly one function, once, with the
\* value: mapObj[k] when the value's discriminator k is a key of mapObj and
\* the fallback otherwise; it returns that function's result.
C7_MatchInvokesOne ==
    \A i \in DOMAIN matches :
        LET m == matches[i]
        IN  /\ m.kind = "return"
            /\ m.invoked = <<[fn |-> Chosen(m), arg |-> discriminated.value]>>
            /\ m.value = Call(Chosen(m), discriminated.value)

(***************************************************************************)
(* src/maybe.ts.  A Maybe instance lives on the heap; an operation that    *)
(* returns a Maybe takes the heap and gives the heap it leaves and the     *)
(* address of the instance it returns.                                     *)
(***************************************************************************)
MaybeRef(a) == Val("maybe", a)

MaxHeap == 3

\* new Maybe(value) storing the value as given.
Maybe_new_keepsUndefined(h, value) ==
    [heap |-> Append(h, [value |-> value]), addr |-> Len(h) + 1,
     invoked |-> <<>>]

\* new Maybe(value): this.value = value ?? null
Maybe_new(h, value) ==
    [heap |-> Append(h, [value |-> IF IsNullish(value) THEN Null ELSE value]),
     addr |-> Len(h) + 1, invoked |-> <<>>]

\* Maybe.None()
Maybe_None(h) == Maybe_new(h, Null)

\* Maybe.Some(value)
Maybe_Some(h, value) == Maybe_new(h, value)

\* Maybe.from(value)
Maybe_from(h, value) ==
    IF value.k = "maybe"
    THEN [heap |-> h, addr |-> value.n, invoked |-> <<>>]
    ELSE Maybe_new(h, value)

\* The closure narrow hands to andThen:
\* (value) => narrowFn(value) ? Maybe.Some(value) : Maybe.None()
NarrowClosure(narrowFn) ==
    [k |-> "function", n |-> 12, items |-> <<>>, narrowFn |-> narrowFn]

\* A call of a user function that may make Maybe instances or throw: the
\* heap it leaves, the value it returns, whether it threw, and the call made.
CallH(h, f, arg) ==
    LET made(r) == [heap |-> r.heap, value |-> MaybeRef(r.addr),
                    threw |-> FALSE, invoked |-> <<[fn |-> f, arg |-> arg]>>]
    IN  CASE f = FnSome -> made(Maybe_Some(h, arg))
          [] f = FnNone -> made(Maybe_None(h))
          [] f = FnThrow -> [heap |-> h, value |-> NoField, threw |-> TRUE,
                             invoked |-> <<[fn |-> f, arg |-> arg]>>]
          [] f.n = 12 -> made(IF arg \in f.narrowFn THEN Maybe_Some(h, arg)
                                                   ELSE Maybe_None(h))
          [] OTHER -> [heap |-> h, value |-> Call(f, arg), threw |-> FALSE,
                       invoked |-> <<[fn |-> f, arg |-> arg]>>]

\* applyValueOrFnOnce(valueOrFnOnce)
applyValueOrFnOnce(h, valueOrFnOnce) ==
    IF valueOrFnOnce.k = "function"
    THEN CallH(h, valueOrFnOnce, Undefined)
    ELSE [heap |-> h, value |-> valueOrFnOnce, threw |-> FALSE,
          invoked |-> <<>>]

\* The Maybe r, returned by a method that made the calls c.invoked first.
After(c, r) ==
    [heap |-> r.heap, addr |-> r.addr, invoked |-> c.invoked \o r.invoked]

\* Maybe.try(wrappedFn)
Maybe_try(h, wrappedFn) ==
    LET c == CallH(h, wrappedFn, Undefined)
    IN  After(c, IF c.threw THEN Maybe_None(h)
                              ELSE Maybe_from(c.heap, c.value))

\* andThen calling nextMaybe whatever this.value is.
Maybe_andThen_unguarded(h, self, nextMaybe) ==
    LET c == CallH(h, nextMaybe, h[self].value)
    IN  After(c, Maybe_from(c.heap, c.value))

\* andThen(nextMaybe)
Maybe_andThen(h, self, nextMaybe) ==
    IF IsNullish(h[self].value)
    THEN Maybe_None(h)
    ELSE LET c == CallH(h, nextMaybe, h[self].value)
         IN  After(c, Maybe_from(c.heap, c.value))

\* narrow(narrowFn)
Maybe_narrow(h, self, narrowFn) ==
    Maybe_andThen(h, self, NarrowClosure(narrowFn))

\* Maybe.narrow(value, narrowFn)
Maybe_narrowStatic(h, value, narrowFn) ==
    LET m == Maybe_from(h, value)
    IN  After(m, Maybe_narrow(m.heap, m.addr, narrowFn))

\* m instanceof Maybe ? m.value : m, for every argument of combine
RawValues(h, maybes) ==
    [i \in DOMAIN maybes |->
        IF maybes[i].k = "maybe" THEN h[maybes[i].n].value ELSE maybes[i]]

\* Maybe.combine(...maybes)
Maybe_combine(h, maybes) ==
    LET rawValues == RawValues(h, maybes)
    IN  IF \E i \in DOMAIN rawValues : IsNullish(rawValues[i])
        THEN Maybe_from(h, Null)
        ELSE Maybe_from(h, Arr(rawValues))

\* map(mapFn)
Maybe_map(h, self, mapFn) ==
    IF h[self].value # Null
    THEN LET c == CallH(h, mapFn, h[self].value)
         IN  After(c, Maybe_from(c.heap, c.value))
    ELSE Maybe_from(h, Null)

\* orElse(nextMaybe)
Maybe_orElse(h, self, nextMaybe) ==
    IF IsNullish(h[self].value)
    THEN LET c == applyValueOrFnOnce(h, nextMaybe)
         IN  After(c, Maybe_from(c.heap, c.value))
    ELSE Maybe_from(h, h[self].value)

\* flatten()
Maybe_flatten(h, self) == Maybe_from(h, h[self].value)

\* dump()
Maybe_dump(h, self) ==
    [kind |-> "return", value |-> h[self].value, error |-> "none",
     invoked |-> <<>>]

\* unwrap() guarding with !this.value.
Maybe_unwrap_falsy(h, self) ==
    IF h[self].value \in {Null, Undefined, Num(0)}
    THEN [kind |-> "throw", value |-> NoField, error |-> "MissingValueError",
          invoked |-> <<>>]
    ELSE [kind |-> "return", value |-> h[self].value, error |-> "none",
     invoked |-> <<>>]

\* unwrap() without its guard.
Maybe_unwrap_unguarded(h, self) ==
    [kind |-> "return", value |-> h[self].value, error |-> "none",
     invoked |-> <<>>]

\* unwrap() (unwrapUnsafe() in lib/maybe.ts)
Maybe_unwrap(h, self) ==
    IF IsNullish(h[self].value)
    THEN [kind |-> "throw", value |-> NoField, error |-> "MissingValueError",
          invoked |-> <<>>]
    ELSE [kind |-> "return", value |-> h[self].value, error |-> "none",
     invoked |-> <<>>]

\* What a method hands back when its result is that of the call c.
Outcome(c) ==
    IF c.threw
    THEN [kind |-> "throw", value |-> NoField, error |-> "Error",
          invoked |-> c.invoked]
    ELSE [kind |-> "return", value |-> c.value, error |-> "none",
          invoked |-> c.invoked]

\* mapOr computing mapFn(this.value) before it looks at this.value.
Maybe_mapOr_eager(h, self, defaultValue, mapFn) ==
    LET m == CallH(h, mapFn, h[self].value)
        c == IF IsNullish(h[self].value)
             THEN applyValueOrFnOnce(h, defaultValue) ELSE m
    IN  [Outcome(c) EXCEPT !.invoked = m.invoked \o
             (IF IsNullish(h[self].value) THEN c.invoked ELSE <<>>)]

\* mapOr(defaultValue, mapFn)
Maybe_mapOr(h, self, defaultValue, mapFn) ==
    IF IsNullish(h[self].value)
    THEN Outcome(applyValueOrFnOnce(h, defaultValue))
    ELSE Outcome(CallH(h, mapFn, h[self].value))

\* unwrapOr(defaultValue) (unwrap(defaultValue) in lib/maybe.ts)
Maybe_unwrapOr(h, self, defaultValue) ==
    IF IsNullish(h[self].value)
    THEN Outcome(applyValueOrFnOnce(h, defaultValue))
    ELSE [kind |-> "return", value |-> h[self].value, error |-> "none",
          invoked |-> <<>>]

\* onSome(fn) (effectOnSome(effectFn) in lib/maybe.ts)
Maybe_onSome(h, self, fn) ==
    LET c == IF ~IsNullish(h[self].value)
             THEN CallH(h, fn, h[self].value)
             ELSE [heap |-> h, value |-> NoField, threw |-> FALSE,
                   invoked |-> <<>>]
    IN  Outcome([c EXCEPT !.value = MaybeRef(self)])

\* onNone(fn) (effectOnNone(fn) in lib/maybe.ts)
Maybe_onNone(h, self, fn) ==
    LET c == IF IsNullish(h[self].value)
             THEN CallH(h, fn, Undefined)
             ELSE [heap |-> h, value |-> NoField, threw |-> FALSE,
                   invoked |-> <<>>]
    IN  Outcome([c EXCEPT !.value = MaybeRef(self)])

\* The values clients wrap, and the functions they pass in.
Raw == {Undefined, Null, Num(0), Num(1)}
Refs == {MaybeRef(a) : a \in DOMAIN heap}
WrappedFns == {FnThrow, FnVoid, FnOne, FnNone}
MaybeFns == {FnVoid, FnNull, FnZero, FnSome}
MaybeNarrowFns == {{Num(1)}}
NextMaybes == {Undefined, Num(1), FnNull}
Defaults == {Num(1), FnZero}
MapOrFns == {FnEcho}
EffectFns == {FnVoid}
Tuples == {<<>>} \cup {<<x>> : x \in {Undefined} \cup Refs}
              \cup {<<x, Num(1)>> : x \in Refs}

InitMaybe ==
    /\ NoSwitch
    /\ NoDiscriminate
    /\ NoMaybe
    /\ NoResult
    /\ NoPipe
    /\ NoProcedure
    /\ NoFork

\* A call that returned the Maybe at address r.addr, leaving the heap r.heap.
\* The client builds Maybes and then reads one of them with an accessor.
Returned(op, self, arg, fn, narrowFn, r) ==
    /\ accessed = NoAccess
    /\ Len(r.heap) <= MaxHeap
    /\ heap' = r.heap
    /\ last' = [op |-> op, self |-> self, arg |-> arg, fn |-> fn,
                narrowFn |-> narrowFn, addr |-> r.addr,
                invoked |-> r.invoked]
    /\ accessed' = NoAccess
    /\ UNCHANGED <<switchVars, discriminateVars, resultVars, pipeVars,
                   procedureVars, forkVars>>

\* An accessor call on the Maybe at address self, with outcome r.
Accessed(op, self, arg, fn, r) ==
    /\ accessed = NoAccess
    /\ accessed' = [op |-> op, self |-> self, arg |-> arg, fn |-> fn,
                    kind |-> r.kind, value |-> r.value, error |-> r.error,
                    invoked |-> r.invoked]
    /\ UNCHANGED <<switchVars, discriminateVars, heap, last, resultVars, pipeVars,
                   procedureVars, forkVars>>

None == Returned("None", 0, NoField, NoField, {}, Maybe_None(heap))

Some(value) ==
    Returned("Some", 0, value, NoField, {}, Maybe_Some(heap, value))

From(value) ==
    Returned("from", 0, value, NoField, {}, Maybe_from(heap, value))

Try(wrappedFn) ==
    Returned("try", 0, NoField, wrappedFn, {}, Maybe_try(heap, wrappedFn))

NarrowStatic(value, narrowFn) ==
    Returned("Maybe.narrow", 0, value, NoField, narrowFn,
             Maybe_narrowStatic(heap, value, narrowFn))

Combine(maybes) ==
    Returned("combine", 0, Arr(maybes), NoField, {},
             Maybe_combine(heap, maybes))

Map(self, mapFn) ==
    Returned("map", self, NoField, mapFn, {}, Maybe_map(heap, self, mapFn))

AndThen(self, nextMaybe) ==
    Returned("andThen", self, NoField, nextMaybe, {},
             Maybe_andThen(heap, self, nextMaybe))

OrElse(self, nextMaybe) ==
    Returned("orElse", self, nextMaybe, NoField, {},
             Maybe_orElse(heap, self, nextMaybe))

Narrow(self, narrowFn) ==
    Returned("narrow", self, NoField, NoField, narrowFn,
             Maybe_narrow(heap, self, narrowFn))

\* flatten is declared only on a Maybe that wraps a Maybe.
Flatten(self) ==
    /\ heap[self].value.k \in {"maybe", "null"}
    /\ Returned("flatten", self, NoField, NoField, {}, Maybe_flatten(heap, self))

Dump(self) == Accessed("dump", self, NoField, NoField, Maybe_dump(heap, self))

Unwrap(self) ==
    Accessed("unwrap", self, NoField, NoField, Maybe_unwrap(heap, self))

MapOr(self, defaultValue, mapFn) ==
    Accessed("mapOr", self, defaultValue, mapFn,
             Maybe_mapOr(heap, self, defaultValue, mapFn))

UnwrapOr(self, defaultValue) ==
    Accessed("unwrapOr", self, defaultValue, NoField,
             Maybe_unwrapOr(heap, self, defaultValue))

OnSome(self, fn) ==
    Accessed("onSome", self, NoField, fn, Maybe_onSome(heap, self, fn))

OnNone(self, fn) ==
    Accessed("onNone", self, NoField, fn, Maybe_onNone(heap, self, fn))

NextMaybe ==
    \/ None
    \/ \E value \in Raw \cup Refs : Some(value)
    \/ \E value \in Raw \cup Refs : From(value)
    \/ \E wrappedFn \in WrappedFns : Try(wrappedFn)
    \/ \E value \in Raw \ {Undefined}, narrowFn \in MaybeNarrowFns :
          NarrowStatic(value, narrowFn)
    \/ \E maybes \in Tuples : Combine(maybes)
    \/ \E self \in DOMAIN heap, mapFn \in MaybeFns : Map(self, mapFn)
    \/ \E self \in DOMAIN heap, nextMaybe \in MaybeFns : AndThen(self, nextMaybe)
    \/ \E self \in DOMAIN heap, nextMaybe \in NextMaybes : OrElse(self, nextMaybe)
    \/ \E self \in DOMAIN heap, narrowFn \in MaybeNarrowFns : Narrow(self, narrowFn)
    \/ \E self \in DOMAIN heap : Flatten(self)
    \/ \E self \in DOMAIN heap : Dump(self)
    \/ \E self \in DOMAIN heap : Unwrap(self)
    \/ \E self \in DOMAIN heap, defaultValue \in Defaults, mapFn \in MapOrFns :
          MapOr(self, defaultValue, mapFn)
    \/ \E self \in DOMAIN heap, defaultValue \in Defaults :
          UnwrapOr(self, defaultValue)
    \/ \E self \in DOMAIN heap, fn \in EffectFns : OnSome(self, fn)
    \/ \E self \in DOMAIN heap, fn \in EffectFns : OnNone(self, fn)

SpecMaybe == InitMaybe /\ [][NextMaybe]_vars

(***************************************************************************)
(* Properties of Maybe.                                                    *)
(***************************************************************************)
NeverUndefined ==
    /\ \A a \in DOMAIN heap : heap[a].value.k # "undefined"
    /\ accessed.op = "dump" =>
          /\ accessed.kind = "return"
          /\ accessed.value = Null \/ ~IsNullish(accessed.value)

InstancesFrozen ==
    \A a \in DOMAIN heap : a \in DOMAIN heap' /\ heap'[a] = heap[a]

\* C8: whatever sequence of None, Some, from, try, narrow, combine, map,
\* andThen, orElse and flatten calls made them, no Maybe wraps undefined,
\* dump() returns null or a non-nullish value, and no call changes the
\* value an existing Maybe wraps.
C8_NeverUndefinedImmutable == []NeverUndefined /\ [][InstancesFrozen]_vars

\* A map whose callback returned undefined on a Maybe with a value, dumped.
C8_Witness ==
    /\ last.op = "map"
    /\ last.fn = FnVoid
    /\ heap[last.self].value # Null
    /\ accessed.op = "dump"
    /\ accessed.self = last.addr
    /\ accessed.value = Null

\* C9: Maybe.Some(x).unwrap() returns x itself, without throwing, for every
\* x that is neither null nor undefined.
C9_SomeUnwrap ==
    (/\ last.op = "Some"
     /\ ~IsNullish(last.arg)
     /\ accessed.op = "unwrap"
     /\ accessed.self = last.addr)
    => /\ accessed.kind = "return"
       /\ accessed.value = last.arg

\* Maybe.Some(0).unwrap()
C9_Witness ==
    /\ last.op = "Some"
    /\ last.arg = Num(0)
    /\ accessed.op = "unwrap"
    /\ accessed.self = last.addr
    /\ accessed.kind = "return"

\* The last call built an empty Maybe in one of the ways C10 lists.
BuiltEmpty ==
    \/ last.op = "None"
    \/ last.op = "from" /\ IsNullish(last.arg)
    \/ last.op = "try" /\ last.fn = FnThrow
    \/ last.op = "Maybe.narrow" /\ last.arg \notin last.narrowFn
    \/ /\ last.op = "narrow"
       /\ heap[last.self].value \notin last.narrowFn
    \/ /\ last.op \in {"map", "andThen"}
       /\ ~IsNullish(heap[last.self].value)
       /\ last.fn \in {FnVoid, FnNull}

Throws(error) == accessed.kind = "throw" /\ accessed.error = error

\* C10: unwrap() throws MissingValueError on a Maybe built by None(),
\* from(null), from(undefined), a throwing try, a failed narrow, or a map or
\* andThen whose callback returned null or undefined, and on any other
\* empty Maybe; when it returns, the value is neither null nor undefined.
C10_UnwrapUnsafe ==
    accessed.op = "unwrap" =>
        /\ (BuiltEmpty /\ accessed.self = last.addr) => Throws("MissingValueError")
        /\ IsNullish(heap[accessed.self].value) => Throws("MissingValueError")
        /\ accessed.kind = "return" => ~IsNullish(accessed.value)

\* andThen with a callback returning null, on a Maybe with a value, unwrapped.
C10_Witness ==
    /\ last.op = "andThen"
    /\ last.fn = FnNull
    /\ ~IsNullish(heap[last.self].value)
    /\ accessed.op = "unwrap"
    /\ accessed.self = last.addr
    /\ Throws("MissingValueError")

\* Maybe.None().mapOr(d, f) was called.
NoneMapOr ==
    /\ last.op = "None"
    /\ accessed.op = "mapOr"
    /\ accessed.self = last.addr

MapFnInvoked == \E i \in DOMAIN accessed.invoked : accessed.invoked[i].fn = accessed.fn

\* C11 as stated: Maybe.None().mapOr(d, f) === d for every default d and
\* mapper f, and f is not invoked.
C11_NoneMapOrIsDefault ==
    NoneMapOr =>
        /\ accessed.kind = "return"
        /\ accessed.value = accessed.arg
        /\ ~MapFnInvoked

\* C11, amended: Maybe.None().mapOr(d, f) is d when d is not a function and
\* the result of d(), called once without arguments, when d is a function;
\* f is not invoked.
C11_NoneMapOrAppliesDefault ==
    NoneMapOr =>
        /\ accessed.kind = "return"
        /\ ~MapFnInvoked
        /\ IF accessed.arg.k = "function"
           THEN /\ accessed.value = Call(accessed.arg, Undefined)
                /\ accessed.invoked = <<[fn |-> accessed.arg, arg |-> Undefined]>>
           ELSE /\ accessed.value = accessed.arg
                /\ accessed.invoked = <<>>

\* Maybe.None().mapOr(() => 0, f)
C11_Witness ==
    /\ NoneMapOr
    /\ accessed.arg = FnZero
    /\ accessed.value = Num(0)

IsEmpty(a) == IsNullish(heap[a].value)

Invokes(call, f) == \E i \in DOMAIN call.invoked : call.invoked[i].fn = f

\* C12: on an empty Maybe, map, andThen and narrow invoke no callback and
\* return an empty Maybe, and onSome invokes no callback; on a Maybe with a
\* value, onNone invokes no callback and unwrapOr, mapOr and orElse do not
\* invoke their default.
C12_ShortCircuit ==
    /\ (last.op \in {"map", "andThen", "narrow"} /\ IsEmpty(last.self)) =>
          /\ last.invoked = <<>>
          /\ IsEmpty(last.addr)
    /\ (accessed.op = "onSome" /\ IsEmpty(accessed.self)) =>
          accessed.invoked = <<>>
    /\ (accessed.op = "onNone" /\ ~IsEmpty(accessed.self)) =>
          accessed.invoked = <<>>
    /\ (accessed.op \in {"unwrapOr", "mapOr"} /\ ~IsEmpty(accessed.self)) =>
          ~Invokes(accessed, accessed.arg)
    /\ (last.op = "orElse" /\ ~IsEmpty(last.self)) =>
          last.invoked = <<>>

\* andThen((v) => Maybe.Some(v)) on an empty Maybe.
C12_Witness ==
    /\ last.op = "andThen"
    /\ last.fn = FnSome
    /\ IsEmpty(last.self)
    /\ IsEmpty(last.addr)

(***************************************************************************)
(* lib/result.ts.  A Result is immutable, so it is modelled by its         *)
(* content: the object this.value, with the properties it has.             *)
(***************************************************************************)
True == Val("boolean", 1)
False == Val("boolean", 0)

\* !v, for the values used here.
Falsy(v) == IsNullish(v) \/ v \in {Num(0), False}

\* { data } | { error }: tags are the properties the object has.
Cell(tags, data, error) == [tags |-> tags, data |-> data, error |-> error]

\* A RawResult: { value: ... }
RawResult(cell) == [k |-> "object", n |-> 0, items |-> <<>>, value |-> cell]

\* new Result(result): this.value = result.value
Result_new(raw) == [k |-> "result", n |-> 0, items |-> <<>>, value |-> raw.value]

\* Result.Ok(data)
Result_Ok(data) == Result_new(RawResult(Cell({"data"}, data, NoField)))

\* Result.Err(error)
Result_Err(error) == Result_new(RawResult(Cell({"error"}, NoField, error)))

\* Result.from(result)
Result_from(raw) == Result_new(raw)

\* isOk(): "data" in this.value
Result_isOk(r) == "data" \in r.value.tags

\* isErr(): "error" in this.value
Result_isErr(r) == "error" \in r.value.tags

\* An Error object; value is NoField for a class without a value field.
ErrorObject(name, value) ==
    [k |-> "object", n |-> 0, items |-> <<>>, name |-> name, value |-> value]

\* What a call hands back: the value returned or the value thrown, and the
\* user functions invoked on the way.
Ret(v, inv) == [kind |-> "return", value |-> v, thrown |-> NoField, invoked |-> inv]
Thr(e, inv) == [kind |-> "throw", value |-> NoField, thrown |-> e, invoked |-> inv]

\* c, then K on the value c returned, unless c threw.
Bind(c, K(_)) ==
    IF c.kind = "throw" THEN c
    ELSE LET k == K(c.value)
         IN  [k EXCEPT !.invoked = c.invoked \o k.invoked]

\* new AssertFailedError(value), new ResultUnwrapErrError(value): the message
\* is built with a template literal before the value field is set.
DedicatedError(name, value) ==
    IF TemplateThrows(value)
    THEN Thr(ErrorObject("TypeError", NoField), <<>>)
    ELSE Ret(ErrorObject(name, value), <<>>)

FnOk == Fn(13)      \* (v) => Result.Ok(v)
FnErr == Fn(14)     \* (v) => Result.Err(v)
\* A predicate (value) => boolean that holds of the values in `holds`.
Pred(holds) == [k |-> "function", n |-> 15, items |-> <<>>, holds |-> holds]

\* A call of a user function from a Result method.
CallR(f, arg) ==
    LET inv == <<[fn |-> f, arg |-> arg]>>
    IN  CASE f = FnThrow -> Thr(ErrorObject("Error", NoField), inv)
          [] f = FnOk -> Ret(Result_Ok(arg), inv)
          [] f = FnErr -> Ret(Result_Err(arg), inv)
          [] f.n = 15 -> Ret(IF arg \in f.holds THEN True ELSE False, inv)
          [] OTHER -> Ret(Call(f, arg), inv)

\* unwrapUnsafe()
Result_unwrapUnsafe(r) ==
    IF "data" \in r.value.tags
    THEN Ret(r.value.data, <<>>)
    ELSE Thr(r.value.error, <<>>)

\* unwrapErrUnsafe()
Result_unwrapErrUnsafe(r) ==
    IF "error" \in r.value.tags
    THEN Ret(r.value.error, <<>>)
    ELSE Bind(DedicatedError("ResultUnwrapErrError", r.value.data),
              LAMBDA e : Thr(e, <<>>))

\* What a method of the Maybe made by maybeOk() or maybeErr() hands back.
OfMaybe(o) ==
    IF o.kind = "throw" THEN Thr(ErrorObject(o.error, NoField), o.invoked)
    ELSE Ret(o.value, o.invoked)

\* maybeOk(): Maybe.from("data" in this.value ? this.value.data : null)
Result_maybeOk(h, r) ==
    Maybe_from(h, IF "data" \in r.value.tags THEN r.value.data ELSE Null)

\* maybeErr(): Maybe.from("error" in this.value ? this.value.error : null)
Result_maybeErr(h, r) ==
    Maybe_from(h, IF "error" \in r.value.tags THEN r.value.error ELSE Null)

\* unwrap(defaultValue): this.maybeOk().unwrap(defaultValue)
Result_unwrap(r, defaultValue) ==
    LET m == Result_maybeOk(<<>>, r)
    IN  OfMaybe(Maybe_unwrapOr(m.heap, m.addr, defaultValue))

\* unwrapErr(defaultError): this.maybeErr().unwrap(defaultError)
Result_unwrapErr(r, defaultError) ==
    LET m == Result_maybeErr(<<>>, r)
    IN  OfMaybe(Maybe_unwrapOr(m.heap, m.addr, defaultError))

\* map handing the data on without calling mapFn.
Result_map_skipsMapFn(r, mapFn) ==
    IF Result_isErr(r) THEN Ret(r, <<>>)
    ELSE Bind(Result_unwrapUnsafe(r), LAMBDA d : Ret(Result_Ok(d), <<>>))

\* map(mapFn)
Result_map(r, mapFn) ==
    IF Result_isErr(r) THEN Ret(r, <<>>)
    ELSE Bind(Result_unwrapUnsafe(r), LAMBDA d :
         Bind(CallR(mapFn, d), LAMBDA v : Ret(Result_Ok(v), <<>>)))

\* mapErr(mapErrFn)
Result_mapErr(r, mapErrFn) ==
    IF Result_isOk(r) THEN Ret(r, <<>>)
    ELSE Bind(Result_unwrapErrUnsafe(r), LAMBDA e :
         Bind(CallR(mapErrFn, e), LAMBDA v : Ret(Result_Err(v), <<>>)))

\* andThen(mapFn)
Result_andThen(r, mapFn) ==
    IF Result_isOk(r)
    THEN Bind(Result_unwrapUnsafe(r), LAMBDA d : CallR(mapFn, d))
    ELSE Bind(Result_unwrapErrUnsafe(r), LAMBDA e : Ret(Result_Err(e), <<>>))

\* The tail of narrow and assert, once the predicate failed on `value`:
\* if (!error) return Result.Err(new <name>(value));
\* if (error instanceof Function) return Result.Err(error(value));
\* return Result.Err(error);
Result_failed(name, value, error) ==
    IF Falsy(error)
    THEN Bind(DedicatedError(name, value), LAMBDA e : Ret(Result_Err(e), <<>>))
    ELSE IF error.k = "function"
    THEN Bind(CallR(error, value), LAMBDA e : Ret(Result_Err(e), <<>>))
    ELSE Ret(Result_Err(error), <<>>)

\* narrow(narrowFn, error)
Result_narrow(r, narrowFn, error) ==
    IF Result_isErr(r)
    THEN Bind(Result_unwrapErrUnsafe(r), LAMBDA e : Ret(Result_Err(e), <<>>))
    ELSE Bind(Result_unwrapUnsafe(r), LAMBDA value :
         Bind(CallR(narrowFn, value), LAMBDA holds :
              IF ~Falsy(holds) THEN Ret(Result_Ok(value), <<>>)
              ELSE Result_failed("NarrowError", value, error)))

\* Result.narrow(value, narrowFn, error)
Result_narrowStatic(value, narrowFn, error) ==
    Result_narrow(Result_Ok(value), narrowFn, error)

\* assert(assertFn, error)
Result_assert(r, assertFn, error) ==
    IF Result_isErr(r) THEN Ret(r, <<>>)
    ELSE Bind(Result_unwrapUnsafe(r), LAMBDA data :
         Bind(CallR(assertFn, data), LAMBDA holds :
              IF ~Falsy(holds) THEN Ret(Result_Ok(data), <<>>)
              ELSE Result_failed("AssertFailedError", data, error)))

\* flatten(): this.andThen((v) => v)
Result_flatten(r) == Result_andThen(r, FnEcho)

\* invert leaving an Err as it is.
Result_invert_keepsErr(r) ==
    IF Result_isOk(r)
    THEN Bind(Result_unwrapUnsafe(r), LAMBDA d : Ret(Result_Err(d), <<>>))
    ELSE Ret(r, <<>>)

\* invert()
Result_invert(r) ==
    IF Result_isOk(r)
    THEN Bind(Result_unwrapUnsafe(r), LAMBDA d : Ret(Result_Err(d), <<>>))
    ELSE Bind(Result_unwrapErrUnsafe(r), LAMBDA e : Ret(Result_Ok(e), <<>>))

\* effectOnOk wrapping what effectFn returned.
Result_effectOnOk_keepsReturn(r, effectFn) == Result_map(r, effectFn)

\* effectOnOk(effectFn): this.map((v) => { effectFn(v); return v; })
Result_effectOnOk(r, effectFn) ==
    IF Result_isErr(r) THEN Ret(r, <<>>)
    ELSE Bind(Result_unwrapUnsafe(r), LAMBDA v :
              Bind(CallR(effectFn, v), LAMBDA void : Ret(Result_Ok(v), <<>>)))

\* effectOnErr(effectFn): this.mapErr((e) => { effectFn(e); return e; })
Result_effectOnErr(r, effectFn) ==
    IF Result_isOk(r) THEN Ret(r, <<>>)
    ELSE Bind(Result_unwrapErrUnsafe(r), LAMBDA e :
              Bind(CallR(effectFn, e), LAMBDA void : Ret(Result_Err(e), <<>>)))

\* try without its catch clause.
Result_try_uncaught(wrappedFn, mapErr) ==
    Bind(CallR(wrappedFn, Undefined), LAMBDA v : Ret(Result_Ok(v), <<>>))

\* Result.try(wrappedFn, mapErr); mapErr is Undefined when not given.
Result_try(wrappedFn, mapErr) ==
    LET c == CallR(wrappedFn, Undefined)
    IN  IF c.kind = "return"
        THEN Ret(Result_Ok(c.value), c.invoked)
        ELSE IF ~Falsy(mapErr)
        THEN Bind([Ret(c.thrown, c.invoked) EXCEPT !.kind = "return"],
                  LAMBDA e : Bind(CallR(mapErr, e),
                                  LAMBDA v : Ret(Result_Err(v), <<>>)))
        ELSE Ret(Result_Err(c.thrown), c.invoked)

\* [...accData, currentData]: spreading needs an iterable.
Spread(accData, currentData) ==
    IF accData.k = "array"
    THEN Ret(Arr(Append(accData.items, currentData)), <<>>)
    ELSE Thr(ErrorObject("TypeError", NoField), <<>>)

\* The reducer letting a later Err replace the Err reached so far.
Result_combineStep_lastError(acc, cur) ==
    IF Result_isErr(cur) THEN Ret(cur, <<>>)
    ELSE IF Result_isOk(acc)
    THEN Bind(Result_unwrapUnsafe(acc), LAMBDA accData :
         Bind(Result_unwrapUnsafe(cur), LAMBDA currentData :
         Bind(Spread(accData, currentData), LAMBDA a : Ret(Result_Ok(a), <<>>))))
    ELSE Bind(Result_unwrapErrUnsafe(acc), LAMBDA e : Ret(Result_Err(e), <<>>))

\* The reducer putting the current data in front: [currentData, ...accData].
Result_combineStep_prepends(acc, cur) ==
    IF Result_isOk(acc)
    THEN Bind(Result_unwrapUnsafe(acc), LAMBDA accData :
         IF Result_isErr(cur) THEN Ret(cur, <<>>)
         ELSE Bind(Result_unwrapUnsafe(cur), LAMBDA currentData :
              IF accData.k = "array"
              THEN Ret(Result_Ok(Arr(<<currentData>> \o accData.items)), <<>>)
              ELSE Thr(ErrorObject("TypeError", NoField), <<>>)))
    ELSE Bind(Result_unwrapErrUnsafe(acc), LAMBDA e : Ret(Result_Err(e), <<>>))

\* The reducer of combine:
\* acc.andThen((accData) =>
\*     current.map((currentData) => [...accData, currentData]))
Result_combineStep(acc, cur) ==
    IF Result_isOk(acc)
    THEN Bind(Result_unwrapUnsafe(acc), LAMBDA accData :
         IF Result_isErr(cur) THEN Ret(cur, <<>>)
         ELSE Bind(Result_unwrapUnsafe(cur), LAMBDA currentData :
              Bind(Spread(accData, currentData),
                   LAMBDA a : Ret(Result_Ok(a), <<>>))))
    ELSE Bind(Result_unwrapErrUnsafe(acc), LAMBDA e : Ret(Result_Err(e), <<>>))

RECURSIVE Reduce(_, _)
\* results.reduce(reducer, acc)
Reduce(acc, results) ==
    IF results = <<>> THEN Ret(acc, <<>>)
    ELSE Bind(Result_combineStep(acc, Head(results)),
              LAMBDA next : Reduce(next, Tail(results)))

\* Result.combine(...results)
Result_combine(results) ==
    Reduce(Result_Ok(Arr(<<>>)),
           [i \in DOMAIN results |-> Result_from(results[i])])

\* The payloads clients wrap, the raw results and the functions they pass.
Payloads == {Null, Num(0), Num(1), Sym(2)}
OkOne == RawResult(Cell({"data"}, Num(1), NoField))
OkZero == RawResult(Cell({"data"}, Num(0), NoField))
ErrOne == RawResult(Cell({"error"}, NoField, Num(1)))
ErrZero == RawResult(Cell({"error"}, NoField, Num(0)))
\* An object with both properties is assignable to Ok<T> | Err<E>.
OkAndErr == RawResult(Cell({"data", "error"}, Num(1), Num(0)))
RawResults == {OkOne, OkZero, ErrOne, ErrZero, OkAndErr}
ResultMapFns == {FnEcho, FnZero, FnOk}
ResultAndThenFns == {FnOk, FnErr}
AssertFns == {Pred({Num(1)}), FnThrow}
\* The error argument of assert and narrow; Undefined when it is not given.
ErrorArgs == {Undefined, Num(0), Str(1), FnEcho}
ResultWrappedFns == {FnOne, FnThrow}
MapErrs == {Undefined, FnZero}
ResultEffectFns == {FnVoid, FnZero}
\* The default of unwrap and unwrapErr: a value or a factory.
ResultDefaults == {Num(1), FnOne}
MaxSteps == 3
MaxCombine == 3
ResultTuples == UNION {[1..n -> RawResults] : n \in 0..MaxCombine}

InitResult ==
    /\ NoSwitch
    /\ NoDiscriminate
    /\ NoMaybe
    /\ NoResult
    /\ NoPipe
    /\ NoProcedure
    /\ NoFork

\* A call with outcome o meant to make a Result.
Called(op, self, arg, fn, narrowFn, o) ==
    /\ rcall' = [op |-> op, self |-> self, arg |-> arg, fn |-> fn,
                 narrowFn |-> narrowFn, kind |-> o.kind, value |-> o.value,
                 thrown |-> o.thrown, invoked |-> o.invoked]
    /\ asked' = NoAsk
    /\ UNCHANGED <<switchVars, discriminateVars, maybeVars, pipeVars,
                   procedureVars, forkVars>>

\* A static method making a Result.
Made(op, arg, fn, narrowFn, o) ==
    /\ current = NoField
    /\ Called(op, NoField, arg, fn, narrowFn, o)
    /\ current' = IF o.kind = "return" THEN o.value ELSE current
    /\ steps' = steps

\* A method of the current Result returning a Result.  The client chains
\* methods and then reads the Result with one accessor.
Chained(op, arg, fn, narrowFn, o) ==
    /\ current # NoField
    /\ asked = NoAsk
    /\ steps < MaxSteps
    /\ Called(op, current, arg, fn, narrowFn, o)
    /\ current' = IF o.kind = "return" THEN o.value ELSE current
    /\ steps' = steps + 1

\* An accessor of the current Result.
Asked(op, arg, o) ==
    /\ current # NoField
    /\ asked = NoAsk
    /\ asked' = [op |-> op, arg |-> arg, kind |-> o.kind, value |-> o.value,
                 thrown |-> o.thrown, invoked |-> o.invoked]
    /\ UNCHANGED <<switchVars, discriminateVars, maybeVars, current, steps,
                   rcall, pipeVars, procedureVars, forkVars>>

ROk(data) == Made("Ok", data, NoField, NoField, Ret(Result_Ok(data), <<>>))

RErr(error) == Made("Err", error, NoField, NoField, Ret(Result_Err(error), <<>>))

RFrom(raw) == Made("from", raw, NoField, NoField, Ret(Result_from(raw), <<>>))

RTry(wrappedFn, mapErr) ==
    Made("try", mapErr, wrappedFn, NoField, Result_try(wrappedFn, mapErr))

RCombine(results) ==
    Made("combine", Arr(results), NoField, NoField, Result_combine(results))

RNarrowStatic(value, narrowFn, error) ==
    Made("Result.narrow", error, value, narrowFn,
         Result_narrowStatic(value, narrowFn, error))

RMap(mapFn) == Chained("map", NoField, mapFn, NoField, Result_map(current, mapFn))

RMapErr(mapErrFn) ==
    Chained("mapErr", NoField, mapErrFn, NoField, Result_mapErr(current, mapErrFn))

RAndThen(mapFn) ==
    Chained("andThen", NoField, mapFn, NoField, Result_andThen(current, mapFn))

RNarrow(narrowFn, error) ==
    Chained("narrow", error, NoField, narrowFn,
            Result_narrow(current, narrowFn, error))

RAssert(assertFn, error) ==
    Chained("assert", error, assertFn, NoField,
            Result_assert(current, assertFn, error))

\* flatten is declared only on a Result whose data is a Result.
RFlatten ==
    /\ current # NoField
    /\ Result_isOk(current) => current.value.data.k = "result"
    /\ Chained("flatten", NoField, NoField, NoField, Result_flatten(current))

REffectOnOk(effectFn) ==
    Chained("effectOnOk", NoField, effectFn, NoField,
            Result_effectOnOk(current, effectFn))

REffectOnErr(effectFn) ==
    Chained("effectOnErr", NoField, effectFn, NoField,
            Result_effectOnErr(current, effectFn))

RInvert == Chained("invert", NoField, NoField, NoField, Result_invert(current))

RUnwrapUnsafe == Asked("unwrapUnsafe", NoField, Result_unwrapUnsafe(current))

RUnwrapErrUnsafe ==
    Asked("unwrapErrUnsafe", NoField, Result_unwrapErrUnsafe(current))

RUnwrap(defaultValue) ==
    Asked("unwrap", defaultValue, Result_unwrap(current, defaultValue))

RUnwrapErr(defaultError) ==
    Asked("unwrapErr", defaultError, Result_unwrapErr(current, defaultError))

NextResult ==
    \/ \E data \in Payloads : ROk(data)
    \/ \E error \in Payloads : RErr(error)
    \/ \E raw \in RawResults : RFrom(raw)
    \/ \E wrappedFn \in ResultWrappedFns, mapErr \in MapErrs : RTry(wrappedFn, mapErr)
    \/ \E results \in ResultTuples : RCombine(results)
    \/ \E value \in Payloads, narrowFn \in {Pred({Num(1)})}, error \in ErrorArgs :
          RNarrowStatic(value, narrowFn, error)
    \/ \E mapFn \in ResultMapFns : RMap(mapFn)
    \/ \E mapErrFn \in ResultMapFns : RMapErr(mapErrFn)
    \/ \E mapFn \in ResultAndThenFns : RAndThen(mapFn)
    \/ \E narrowFn \in {Pred({Num(1)})}, error \in ErrorArgs : RNarrow(narrowFn, error)
    \/ \E assertFn \in AssertFns, error \in ErrorArgs : RAssert(assertFn, error)
    \/ RFlatten
    \/ RInvert
    \/ \E effectFn \in ResultEffectFns : REffectOnOk(effectFn)
    \/ \E effectFn \in ResultEffectFns : REffectOnErr(effectFn)
    \/ RUnwrapUnsafe
    \/ RUnwrapErrUnsafe
    \/ \E defaultValue \in ResultDefaults : RUnwrap(defaultValue)
    \/ \E defaultError \in ResultDefaults : RUnwrapErr(defaultError)

SpecResult == InitResult /\ [][NextResult]_vars

(***************************************************************************)
(* Properties of Result.                                                   *)
(***************************************************************************)
\* C13: every Result the constructors and any chain of map, mapErr,
\* andThen, assert, narrow, invert and flatten calls reach holds exactly one
\* of the two tags: exactly one of isOk() and isErr() is true.
C13_ExactlyOneTag ==
    current # NoField => (Result_isOk(current) # Result_isErr(current))

\* r is an Ok: it has the data tag only.  r is an Err: the error tag only.
IsOk(r) == r.k = "result" /\ r.value.tags = {"data"}
IsErr(r) == r.k = "result" /\ r.value.tags = {"error"}

\* Result.Ok(x).map(f).unwrapUnsafe() was evaluated.
OkMapUnwrap ==
    /\ rcall.op = "map"
    /\ IsOk(rcall.self)
    /\ asked.op = "unwrapUnsafe"

\* C14: Result.Ok(x).map(f).unwrapUnsafe() is f(x), and f was invoked
\* exactly once, with x.
C14_OkMapUnwrap ==
    OkMapUnwrap =>
        /\ rcall.invoked = <<[fn |-> rcall.fn, arg |-> rcall.self.value.data]>>
        /\ asked.kind = "return"
        /\ asked.value = CallR(rcall.fn, rcall.self.value.data).value

\* Result.Ok(1).map(() => 0).unwrapUnsafe()
C14_Witness ==
    /\ OkMapUnwrap
    /\ rcall.self = Result_Ok(Num(1))
    /\ rcall.fn = FnZero
    /\ asked.value = Num(0)

\* The arguments of the last combine call, and those that are an Err.
Combined == rcall.arg.items
ErrAt == {i \in DOMAIN Combined : IsErr(Result_from(Combined[i]))}
FirstErrAt == IF ErrAt = {} THEN 0 ELSE CHOOSE i \in ErrAt : \A j \in ErrAt : i <= j

\* Result.combine was called on arguments that each are an Ok or an Err.
CombinedResults ==
    /\ rcall.op = "combine"
    /\ \A i \in DOMAIN Combined :
          IsOk(Result_from(Combined[i])) \/ IsErr(Result_from(Combined[i]))

\* C15: when at least one argument of Result.combine is an Err, combine
\* returns an Err wrapping the error of the first such argument, whatever
\* errors come after it.
C15_CombineFirstError ==
    (CombinedResults /\ ErrAt # {}) =>
        /\ rcall.kind = "return"
        /\ IsErr(rcall.value)
        /\ rcall.value.value.error = Combined[FirstErrAt].value.error

\* Result.combine(Ok(1), Err(1), Err(0)) is Err(1).
C15_Witness ==
    /\ rcall.op = "combine"
    /\ Combined = <<OkOne, ErrOne, ErrZero>>
    /\ rcall.value = Result_Err(Num(1))

\* C16: when every argument of Result.combine is an Ok, combine returns an
\* Ok whose data is the tuple of the arguments' data, in argument order;
\* without arguments it is Ok of the empty tuple.
C16_CombineAllOk ==
    (CombinedResults /\ ErrAt = {}) =>
        /\ rcall.kind = "return"
        /\ IsOk(rcall.value)
        /\ rcall.value.value.data =
              Arr([i \in DOMAIN Combined |-> Combined[i].value.data])

\* Result.combine(Ok(1), Ok(0)) is Ok([1, 0]).
C16_Witness ==
    /\ rcall.op = "combine"
    /\ Combined = <<OkOne, OkZero>>
    /\ rcall.value = Result_Ok(Arr(<<Num(1), Num(0)>>))

\* assert was called on an Ok or an Err with a predicate that returns.
Asserted ==
    /\ rcall.op = "assert"
    /\ rcall.fn.n = 15
    /\ IsOk(rcall.self) \/ IsErr(rcall.self)

AssertPassed == IsOk(rcall.self) /\ rcall.self.value.data \in rcall.fn.holds
AssertFailed == IsOk(rcall.self) /\ rcall.self.value.data \notin rcall.fn.holds

\* C17: assert(assertFn), without an error argument, never throws: on an Ok
\* whose data fails assertFn it returns an Err wrapping an AssertFailedError
\* whose value is that data, on an Ok whose data passes it returns an Ok
\* with the same data, and on an Err it returns the original error without
\* invoking assertFn.
C17_AssertWithoutError ==
    (Asserted /\ rcall.arg = Undefined) =>
        /\ rcall.kind = "return"
        /\ AssertFailed =>
              rcall.value = Result_Err(ErrorObject("AssertFailedError",
                                                   rcall.self.value.data))
        /\ AssertPassed => rcall.value = Result_Ok(rcall.self.value.data)
        /\ IsErr(rcall.self) =>
              /\ rcall.value = rcall.self
              /\ rcall.invoked = <<>>

\* C18: assert(assertFn, error), on an Ok whose data fails assertFn, returns
\* a Result wrapping the error provided, whatever value it is: error itself
\* when it is a value, error(data) when it is a function; no
\* AssertFailedError is produced.
C18_AssertWithError ==
    (Asserted /\ rcall.arg # Undefined /\ AssertFailed) =>
        /\ rcall.kind = "return"
        /\ rcall.value =
              Result_Err(IF rcall.arg.k = "function"
                         THEN CallR(rcall.arg, rcall.self.value.data).value
                         ELSE rcall.arg)

\* invert() on an Ok gives an Err of its data, on an Err an Ok of its error.
InvertSwaps ==
    rcall.op = "invert" =>
        /\ IsOk(rcall.self) =>
              /\ rcall.kind = "return"
              /\ rcall.value = Result_Err(rcall.self.value.data)
        /\ IsErr(rcall.self) =>
              /\ rcall.kind = "return"
              /\ rcall.value = Result_Ok(rcall.self.value.error)

\* r.invert() was followed by .invert(), for r an Ok or an Err.
InvertedTwice ==
    /\ rcall.op = "invert"
    /\ IsOk(rcall.self) \/ IsErr(rcall.self)
    /\ rcall'.op = "invert"
    /\ steps' = steps + 1

\* C19: invert swaps the tags, Ok(x).invert() being an Err wrapping x and
\* Err(e).invert() an Ok wrapping e, so that r.invert().invert() has the tag
\* and payload of r.
C19_InvertSwaps ==
    []InvertSwaps /\ [][InvertedTwice => rcall'.value = rcall.self]_vars

\* Ok(1).invert().invert(): the second invert is called on Err(1).
C19_Witness ==
    /\ rcall.op = "invert"
    /\ steps >= 2
    /\ rcall.self = Result_Err(Num(1))
    /\ rcall.value = Result_Ok(Num(1))

(***************************************************************************)
(* Properties of the unsafe accessors.                                     *)
(***************************************************************************)
\* The error classes of lib/errors.ts.
DedicatedErrors ==
    {"MissingValueError", "NarrowError", "AssertFailedError",
     "ResultUnwrapErrError"}

\* e is an instance of one of them whose value field holds v.
IsDedicatedCarrying(e, v) ==
    /\ e.k = "object"
    /\ "name" \in DOMAIN e
    /\ e.name \in DedicatedErrors
    /\ e.value = v

\* C20: an unsafe accessor that fails throws one of the library's error
\* classes, and the error's value field holds the offending value: the
\* wrapped payload for Maybe.unwrap, Result.unwrapUnsafe and
\* Result.unwrapErrUnsafe, the un-narrowed value for exhaustUnsafe.
C20_UnsafeAccessorsThrowDedicated ==
    /\ (asked.op = "unwrapUnsafe" /\ asked.kind = "throw") =>
          IsDedicatedCarrying(asked.thrown, current.value.error)
    /\ (asked.op = "unwrapErrUnsafe" /\ asked.kind = "throw") =>
          IsDedicatedCarrying(asked.thrown, current.value.data)
    /\ (accessed.op = "unwrap" /\ accessed.kind = "throw") =>
          /\ accessed.error \in DedicatedErrors
          /\ accessed.value = heap[accessed.self].value
    /\ (ret.op = "exhaustUnsafe" /\ ret.kind = "throw") =>
          /\ ret.error \in DedicatedErrors
          /\ ret.value = switched

(***************************************************************************)
(* src/pipe.ts                                                             *)
(***************************************************************************)
FnInc == Fn(16)     \* (v) => v + 1
FnDouble == Fn(17)  \* (v) => v * 2

\* A call of a function given to a Pipe or a Procedure.
CallP(f, arg) ==
    CASE f = FnInc -> Num(arg.n + 1)
      [] f = FnDouble -> Num(arg.n * 2)
      [] OTHER -> Call(f, arg)

\* new Pipe(value)
Pipe_new(value) == [value |-> value]

\* Pipe.create(value)
Pipe_create(value) == Pipe_new(value)

\* map(mapFn): the Pipe returned and the calls made.
Pipe_map(p, mapFn) ==
    [pipe |-> Pipe_new(CallP(mapFn, p.value)),
     invoked |-> <<[fn |-> mapFn, arg |-> p.value]>>]

\* effect keeping what effectFn returned.
Pipe_effect_keepsReturn(p, effectFn) ==
    [pipe |-> Pipe_new(CallP(effectFn, p.value)),
     invoked |-> <<[fn |-> effectFn, arg |-> p.value]>>]

\* effect(effectFn)
Pipe_effect(p, effectFn) ==
    [pipe |-> Pipe_new(p.value),
     invoked |-> <<[fn |-> effectFn, arg |-> p.value]>>]

\* unwrap()
Pipe_unwrap(p) == p.value

PipeInputs == {Num(0), Num(1)}
PipeMapFns == {FnInc, FnDouble}
PipeEffectFns == {FnVoid, FnZero}
MaxStages == 3

InitPipe ==
    /\ NoSwitch
    /\ NoDiscriminate
    /\ NoMaybe
    /\ NoResult
    /\ NoPipe
    /\ NoProcedure
    /\ NoFork

PipeCreate(value) ==
    /\ pipe = NoField
    /\ pipeInit' = value
    /\ pipe' = Pipe_create(value)
    /\ UNCHANGED <<switchVars, discriminateVars, maybeVars, resultVars,
                   pipeCalls, pipeLog, pipeOut, procedureVars, forkVars>>

\* A map or effect call on the chain's last Pipe, with outcome r.
Piped(op, fn, r) ==
    /\ pipe # NoField
    /\ pipeOut = NoField
    /\ Len(pipeCalls) < MaxStages
    /\ pipe' = r.pipe
    /\ pipeCalls' = Append(pipeCalls, [op |-> op, fn |-> fn])
    /\ pipeLog' = pipeLog \o r.invoked
    /\ UNCHANGED <<switchVars, discriminateVars, maybeVars, resultVars,
                   pipeInit, pipeOut, procedureVars, forkVars>>

PipeMap(mapFn) == Piped("map", mapFn, Pipe_map(pipe, mapFn))

PipeEffect(effectFn) == Piped("effect", effectFn, Pipe_effect(pipe, effectFn))

PipeUnwrap ==
    /\ pipe # NoField
    /\ pipeOut = NoField
    /\ pipeOut' = Pipe_unwrap(pipe)
    /\ UNCHANGED <<switchVars, discriminateVars, maybeVars, resultVars,
                   pipeInit, pipe, pipeCalls, pipeLog, procedureVars, forkVars>>

NextPipe ==
    \/ \E value \in PipeInputs : PipeCreate(value)
    \/ \E mapFn \in PipeMapFns : PipeMap(mapFn)
    \/ \E effectFn \in PipeEffectFns : PipeEffect(effectFn)
    \/ PipeUnwrap

SpecPipe == InitPipe /\ [][NextPipe]_vars

(***************************************************************************)
(* Properties of Pipe.                                                     *)
(***************************************************************************)
RECURSIVE Composed(_, _)
\* The maps among the stages `calls`, applied in order to v.
Composed(calls, v) ==
    IF calls = <<>> THEN v
    ELSE LET c == calls[Len(calls)]
             before == Composed(SubSeq(calls, 1, Len(calls) - 1), v)
         IN  IF c.op = "map" THEN CallP(c.fn, before) ELSE before

\* C21: Pipe is eager.  After every map or effect call the log of invoked
\* functions holds one entry per call made so far, in chain order, each
\* with the value the chain held at that call; the Pipe holds the maps
\* applied in order to the initial value (an effect leaves it unchanged),
\* and unwrap() returns that value.
C21_PipeEager ==
    /\ Len(pipeLog) = Len(pipeCalls)
    /\ \A i \in DOMAIN pipeCalls :
          pipeLog[i] = [fn |-> pipeCalls[i].fn,
                        arg |-> Composed(SubSeq(pipeCalls, 1, i - 1), pipeInit)]
    /\ pipe # NoField => pipe.value = Composed(pipeCalls, pipeInit)
    /\ pipeOut # NoField => pipeOut = Composed(pipeCalls, pipeInit)

\* Pipe.create(1).map(inc).effect(() => 0).map(double).unwrap() is 4.
C21_Witness ==
    /\ pipeInit = Num(1)
    /\ pipeCalls = <<[op |-> "map", fn |-> FnInc], [op |-> "effect", fn |-> FnZero],
                     [op |-> "map", fn |-> FnDouble]>>
    /\ pipeOut = Num(4)

(***************************************************************************)
(* procedure.ts: a Procedure holds a closure procFn.  The closures that    *)
(* map, effect and andThen build capture `this` (and nextProcedure), so    *)
(* procs is the heap of Procedure objects and a closure is a cell naming   *)
(* the captured objects by address.                                        *)
(***************************************************************************)
ProcCell(op, self, fn, next) == [op |-> op, self |-> self, fn |-> fn, next |-> next]

\* new Procedure(procFn): the heap, the new object and the calls made.
Procedure_new(h, cell) ==
    [procs |-> Append(h, cell), addr |-> Len(h) + 1, invoked |-> <<>>]

\* Procedure.create(): procFn is (value) => value
Procedure_create(h) == Procedure_new(h, ProcCell("create", 0, NoField, 0))

\* map that rewrites the receiver's procFn and returns the receiver.
Procedure_map_mutates(h, self, mapFn) ==
    [procs |-> [Append(h, h[self]) EXCEPT
                   ![self] = ProcCell("map", Len(h) + 1, mapFn, 0)],
     addr |-> self, invoked |-> <<>>]

\* map(mapFn): procFn is (value) => mapFn(this.procFn(value))
Procedure_map(h, self, mapFn) ==
    Procedure_new(h, ProcCell("map", self, mapFn, 0))

\* andThen(nextProcedure):
\* procFn is (value) => nextProcedure.procFn(this.procFn(value))
Procedure_andThen(h, self, next) ==
    Procedure_new(h, ProcCell("andThen", self, NoField, next))

\* effect calling effectFn when the Procedure is built.
Procedure_effect_eager(h, self, effectFn) ==
    [Procedure_new(h, ProcCell("effect", self, effectFn, 0)) EXCEPT
        !.invoked = <<[fn |-> effectFn, arg |-> Undefined]>>]

\* effect(effectFn): procFn is
\* (value) => { const result = this.procFn(value); effectFn(result); return result; }
Procedure_effect(h, self, effectFn) ==
    Procedure_new(h, ProcCell("effect", self, effectFn, 0))

RECURSIVE procFn(_, _, _)
\* A call of the procFn of the Procedure at addr: what it returns and the
\* user functions it invokes, in order.
procFn(h, addr, value) ==
    LET cell == h[addr] IN
    IF cell.op = "create" THEN [value |-> value, invoked |-> <<>>]
    ELSE LET mine == procFn(h, cell.self, value) IN
         CASE cell.op = "map" ->
                [value |-> CallP(cell.fn, mine.value),
                 invoked |-> Append(mine.invoked, [fn |-> cell.fn, arg |-> mine.value])]
           [] cell.op = "effect" ->
                [value |-> mine.value,
                 invoked |-> Append(mine.invoked, [fn |-> cell.fn, arg |-> mine.value])]
           [] cell.op = "andThen" ->
                LET after == procFn(h, cell.next, mine.value) IN
                [value |-> after.value, invoked |-> mine.invoked \o after.invoked]

\* run(value)
Procedure_run(h, self, value) ==
    LET r == procFn(h, self, value) IN
    [procs |-> h, value |-> r.value, invoked |-> r.invoked]

\* buildCallback(): returns this.procFn
Procedure_buildCallback(h, self) ==
    [procs |-> h, callback |-> self, invoked |-> <<>>]

ProcMapFns == {FnInc, FnDouble}
ProcEffectFns == {FnVoid}
RunInputs == {Num(1)}
MaxProcs == 3
MaxRuns == 2

InitProcedure ==
    /\ NoSwitch
    /\ NoDiscriminate
    /\ NoMaybe
    /\ NoResult
    /\ NoPipe
    /\ NoProcedure
    /\ NoFork

\* A call that returns a Procedure, with its outcome r.
Built(op, self, fn, next, r) ==
    /\ Len(procs) < MaxProcs
    /\ procs' = r.procs
    /\ builds' = Append(builds, [op |-> op, self |-> self, fn |-> fn,
                                 next |-> next, addr |-> r.addr,
                                 invoked |-> r.invoked])
    /\ UNCHANGED <<switchVars, discriminateVars, maybeVars, resultVars,
                   pipeVars, runs, forkVars>>

ProcCreate ==
    /\ procs = <<>>
    /\ Built("create", 0, NoField, 0, Procedure_create(procs))

ProcMap(self, mapFn) ==
    Built("map", self, mapFn, 0, Procedure_map(procs, self, mapFn))

ProcEffect(self, effectFn) ==
    Built("effect", self, effectFn, 0, Procedure_effect(procs, self, effectFn))

ProcAndThen(self, next) ==
    Built("andThen", self, NoField, next, Procedure_andThen(procs, self, next))

\* A call of procFn, by run or through the callback, with its outcome r;
\* built is what getting hold of procFn invoked.
Ran(via, self, value, built, r) ==
    /\ Len(runs) < MaxRuns
    /\ procs' = r.procs
    /\ runs' = Append(runs, [via |-> via, proc |-> self, input |-> value,
                             built |-> built, value |-> r.value,
                             invoked |-> r.invoked])
    /\ UNCHANGED <<switchVars, discriminateVars, maybeVars, resultVars,
                   pipeVars, builds, forkVars>>

ProcRun(self, value) ==
    Ran("run", self, value, <<>>, Procedure_run(procs, self, value))

\* const callback = self.buildCallback(); callback(value)
ProcCallback(self, value) ==
    LET b == Procedure_buildCallback(procs, self)
        r == procFn(b.procs, b.callback, value)
    IN  Ran("callback", self, value, b.invoked,
            [procs |-> b.procs, value |-> r.value, invoked |-> r.invoked])

NextProcedure ==
    \/ ProcCreate
    \/ \E self \in DOMAIN procs, mapFn \in ProcMapFns : ProcMap(self, mapFn)
    \/ \E self \in DOMAIN procs, effectFn \in ProcEffectFns :
          ProcEffect(self, effectFn)
    \/ \E self \in DOMAIN procs, next \in DOMAIN procs : ProcAndThen(self, next)
    \/ \E self \in DOMAIN procs, value \in RunInputs : ProcRun(self, value)
    \/ \E self \in DOMAIN procs, value \in RunInputs : ProcCallback(self, value)

SpecProcedure == InitProcedure /\ [][NextProcedure]_vars

(***************************************************************************)
(* Properties of Procedure.                                                *)
(***************************************************************************)
RECURSIVE Stages(_, _)
\* The map and effect stages of the chain of calls that built the i-th
\* Procedure, in chain order; andThen appends the stages of nextProcedure.
Stages(calls, i) ==
    LET call == calls[i] IN
    CASE call.op = "create" -> <<>>
      [] call.op \in {"map", "effect"} ->
           Append(Stages(calls, call.self), [op |-> call.op, fn |-> call.fn])
      [] call.op = "andThen" ->
           Stages(calls, call.self) \o Stages(calls, call.next)

\* One call per stage, in order, each with the maps before it applied to v.
StageCalls(stages, v) ==
    [i \in DOMAIN stages |->
        [fn |-> stages[i].fn, arg |-> Composed(SubSeq(stages, 1, i - 1), v)]]

RunsAgree ==
    \A i, j \in DOMAIN runs :
       runs[i].proc = runs[j].proc /\ runs[i].input = runs[j].input
          => /\ runs[i].value = runs[j].value
             /\ runs[i].invoked = runs[j].invoked

\* No step changes what an existing Procedure computes or which effects
\* it fires.
ProcsFrozen ==
    \A addr \in DOMAIN procs, v \in RunInputs :
       /\ addr \in DOMAIN procs'
       /\ procFn(procs', addr, v) = procFn(procs, addr, v)

\* C23: Procedure is immutable and reusable.  Deriving a Procedure with
\* map, effect or andThen, and running one, leaves what every existing
\* Procedure's run(v) returns and invokes unchanged; two runs of one
\* Procedure on one input return the same value and invoke the same
\* functions with the same arguments.
C23_ProcedureImmutable == []RunsAgree /\ [][ProcsFrozen]_vars

\* base = create().map(inc) was run twice and base.map(double) was derived
\* from it: both runs returned 2.
C23_Witness ==
    /\ Len(procs) = 3
    /\ procs[2] = ProcCell("map", 1, FnInc, 0)
    /\ procs[3] = ProcCell("map", 2, FnDouble, 0)
    /\ Len(runs) = 2
    /\ \A i \in DOMAIN runs : runs[i].proc = 2 /\ runs[i].value = Num(2)

(***************************************************************************)
(* Properties of Result's safe accessors.                                  *)
(***************************************************************************)
\* What a default stands for: the value, or what the factory returns.
DefaultOf(d) == IF d.k = "function" THEN Call(d, Undefined) ELSE d

\* The factory call made for the default d, if d is a factory.
DefaultCalls(d) ==
    IF d.k = "function" THEN <<[fn |-> d, arg |-> Undefined]>> ELSE <<>>

\* C24: unwrap(defaultValue) on an Ok returns the wrapped data, whatever
\* the data is, and invokes no default factory; on an Err it returns the
\* default, or what the default factory returns.  unwrapErr(defaultError)
\* does the same with the tags swapped.
C24_UnwrapOrDefault ==
    /\ (asked.op = "unwrap" /\ IsOk(current)) =>
          /\ asked.kind = "return"
          /\ asked.value = current.value.data
          /\ asked.invoked = <<>>
    /\ (asked.op = "unwrap" /\ IsErr(current)) =>
          /\ asked.kind = "return"
          /\ asked.value = DefaultOf(asked.arg)
          /\ asked.invoked = DefaultCalls(asked.arg)
    /\ (asked.op = "unwrapErr" /\ IsErr(current)) =>
          /\ asked.kind = "return"
          /\ asked.value = current.value.error
          /\ asked.invoked = <<>>
    /\ (asked.op = "unwrapErr" /\ IsOk(current)) =>
          /\ asked.kind = "return"
          /\ asked.value = DefaultOf(asked.arg)
          /\ asked.invoked = DefaultCalls(asked.arg)

(***************************************************************************)
(* The constructors that catch, Maybe.try and Result.try, and the          *)
(* conversion Maybe.intoResult.                                            *)
(***************************************************************************)
\* The class MissingValueError, as the callee of `new MissingValueError()`.
MissingValueErrorClass == Val("class", 0)

\* new MissingValueError()
MissingValueError(h) ==
    [heap |-> h, value |-> ErrorObject("MissingValueError", NoField),
     threw |-> FALSE,
     invoked |-> <<[fn |-> MissingValueErrorClass, arg |-> Undefined]>>]

\* intoResult(error):
\* this.mapOr(Result.Err(error ? applyValueOrFnOnce(error)
\*                             : new MissingValueError()), Result.Ok)
\* The argument of mapOr is evaluated before mapOr is called.
Maybe_intoResult(h, self, error) ==
    LET e == IF ~Falsy(error) THEN applyValueOrFnOnce(h, error)
                              ELSE MissingValueError(h)
    IN  IF e.threw THEN Outcome(e)
        ELSE LET defaultValue == Result_Err(e.value)
                 r == IF IsNullish(h[self].value)
                      THEN Outcome(applyValueOrFnOnce(e.heap, defaultValue))
                      ELSE Outcome([e EXCEPT !.value = Result_Ok(h[self].value),
                                             !.invoked = <<>>])
             IN  [r EXCEPT !.invoked = e.invoked \o r.invoked]

\* The error argument of intoResult; Undefined when it is not given.
IntoErrors == {Undefined, Num(0), Num(1), FnOne}

InitConvert ==
    /\ NoSwitch
    /\ NoDiscriminate
    /\ NoMaybe
    /\ NoResult
    /\ NoPipe
    /\ NoProcedure
    /\ NoFork

IntoResult(self, error) ==
    Accessed("intoResult", self, error, NoField,
             Maybe_intoResult(heap, self, error))

NextConvert ==
    \/ \E value \in Raw : From(value)
    \/ \E wrappedFn \in WrappedFns : Try(wrappedFn)
    \/ \E wrappedFn \in ResultWrappedFns, mapErr \in MapErrs : RTry(wrappedFn, mapErr)
    \/ \E self \in DOMAIN heap, error \in IntoErrors : IntoResult(self, error)

SpecConvert == InitConvert /\ [][NextConvert]_vars

\* What `throw new Error(...)` in a wrapped function throws.
ThrownError == ErrorObject("Error", NoField)

\* C25: Result.try(fn) returns, and never throws what fn threw: it returns
\* Ok(fn()) when fn returns, Err(e) when fn throws e and no mapErr is
\* given, and Err(mapErr(e)) when mapErr is given; Maybe.try(fn) returns an
\* empty Maybe when fn throws, and Maybe.from(fn()) when it returns.
C25_TryCatches ==
    /\ rcall.op = "try" =>
          /\ rcall.kind = "return"
          /\ rcall.fn # FnThrow =>
                /\ rcall.value = Result_Ok(Call(rcall.fn, Undefined))
                /\ rcall.invoked = <<[fn |-> rcall.fn, arg |-> Undefined]>>
          /\ (rcall.fn = FnThrow /\ rcall.arg = Undefined) =>
                rcall.value = Result_Err(ThrownError)
          /\ (rcall.fn = FnThrow /\ rcall.arg # Undefined) =>
                /\ rcall.value = Result_Err(Call(rcall.arg, ThrownError))
                /\ rcall.invoked = <<[fn |-> FnThrow, arg |-> Undefined],
                                     [fn |-> rcall.arg, arg |-> ThrownError]>>
    /\ last.op = "try" =>
          /\ last.addr \in DOMAIN heap
          /\ last.fn = FnThrow => heap[last.addr].value = Null
          /\ last.fn = FnOne => heap[last.addr].value = Num(1)

\* Result.try(throwing, mapErr) returned Err(mapErr(e)) and
\* Maybe.try(throwing) returned an empty Maybe.
C25_Witness ==
    /\ rcall.op = "try" /\ rcall.fn = FnThrow /\ rcall.arg = FnZero
    /\ rcall.value = Result_Err(Num(0))
    /\ last.op = "try" /\ last.fn = FnThrow
    /\ heap[last.addr].value = Null

\* An intoResult() call was made on a Maybe with a value / without one.
IntoResultOfSome ==
    accessed.op = "intoResult" /\ ~IsNullish(heap[accessed.self].value)
IntoResultOfNone ==
    accessed.op = "intoResult" /\ IsNullish(heap[accessed.self].value)

\* C26: intoResult on a Maybe wrapping x returns Ok(x); on an empty Maybe
\* it returns Err(MissingValueError) when no error argument is given and,
\* for every error argument given, Err of that error: the value itself, or
\* what the factory returns.
C26_IntoResult ==
    /\ IntoResultOfSome =>
          /\ accessed.kind = "return"
          /\ accessed.value = Result_Ok(heap[accessed.self].value)
    /\ (IntoResultOfNone /\ accessed.arg = Undefined) =>
          /\ accessed.kind = "return"
          /\ accessed.value = Result_Err(ErrorObject("MissingValueError", NoField))
    /\ (IntoResultOfNone /\ accessed.arg # Undefined) =>
          /\ accessed.kind = "return"
          /\ accessed.value = Result_Err(DefaultOf(accessed.arg))

\* C30: intoResult(errorFactory) on a Maybe with a value calls no error
\* factory and constructs no MissingValueError; on an empty Maybe the
\* factory is called once.
C30_IntoResultLazy ==
    /\ IntoResultOfSome => accessed.invoked = <<>>
    /\ (IntoResultOfNone /\ accessed.arg.k = "function") =>
          accessed.invoked = <<[fn |-> accessed.arg, arg |-> Undefined]>>

(***************************************************************************)
(* Properties of Result's callbacks.                                       *)
(***************************************************************************)
\* The last call was op on an Err / on an Ok.
OnErr(ops) == rcall.op \in ops /\ IsErr(rcall.self)
OnOk(ops) == rcall.op \in ops /\ IsOk(rcall.self)

\* C27: on an Err, map, andThen, assert, narrow and effectOnOk invoke no
\* callback and return a Result wrapping the same error; on an Ok, mapErr
\* and effectOnErr invoke no callback and return a Result wrapping the same
\* data; effectOnOk on an Ok and effectOnErr on an Err invoke the effect
\* exactly once, with the payload, and return a Result with that payload.
C27_ShortCircuit ==
    /\ OnErr({"map", "andThen", "assert", "narrow", "effectOnOk"}) =>
          /\ rcall.invoked = <<>>
          /\ rcall.kind = "return"
          /\ rcall.value = Result_Err(rcall.self.value.error)
    /\ OnOk({"mapErr", "effectOnErr"}) =>
          /\ rcall.invoked = <<>>
          /\ rcall.kind = "return"
          /\ rcall.value = Result_Ok(rcall.self.value.data)
    /\ OnOk({"effectOnOk"}) =>
          /\ rcall.invoked = <<[fn |-> rcall.fn, arg |-> rcall.self.value.data]>>
          /\ rcall.kind = "return"
          /\ rcall.value = Result_Ok(rcall.self.value.data)
    /\ OnErr({"effectOnErr"}) =>
          /\ rcall.invoked = <<[fn |-> rcall.fn, arg |-> rcall.self.value.error]>>
          /\ rcall.kind = "return"
          /\ rcall.value = Result_Err(rcall.self.value.error)

\* Result.Ok(1).effectOnOk(() => 0) called the effect once and is Ok(1).
C27_Witness ==
    /\ OnOk({"effectOnOk"})
    /\ rcall.fn = FnZero
    /\ rcall.invoked = <<[fn |-> FnZero, arg |-> Num(1)]>>
    /\ rcall.value = Result_Ok(Num(1))

(***************************************************************************)
(* narrow-switch.ts, instance by instance: a client may keep a             *)
(* NarrowSwitch and call case or a terminal on it more than once.  Each    *)
(* instance holds its state and its type parameter TNarrowed; madeBy       *)
(* records the call that made it.                                          *)
(***************************************************************************)
\* new NarrowSwitch(state)
NarrowSwitch_new(h, st, T, madeBy) ==
    [instances |-> Append(h, [state |-> st, T |-> T, madeBy |-> madeBy]),
     addr |-> Len(h) + 1]

\* NarrowSwitch.switch(value)
NarrowSwitch_switch(h, value) ==
    NarrowSwitch_new(h, Searching(value), AnyUser,
                     [self |-> 0, narrowFn |-> {}, mapFn |-> NoField,
                      switched |-> value])

\* case assigning this.state and returning this.
NarrowSwitch_case_inPlace(h, self, narrowFn, mapFn) ==
    LET r == switchCase(h[self].state, narrowFn, mapFn)
    IN  [instances |->
            [h EXCEPT ![self].state = r.state,
                      ![self].T = Exclude(h[self].T, narrowFn \cap h[self].T)],
         addr |-> self]

\* case(narrowFn, mapFn) on the instance at self
NarrowSwitch_case(h, self, narrowFn, mapFn) ==
    LET r == switchCase(h[self].state, narrowFn, mapFn)
    IN  NarrowSwitch_new(h, r.state,
                         Exclude(h[self].T, narrowFn \cap h[self].T),
                         [self |-> self, narrowFn |-> narrowFn, mapFn |-> mapFn,
                          switched |-> h[self].madeBy.switched])

ForkInputs == {User, Admin}
ForkNarrowFns == {{User}, SwitchInputs}
ForkMapFns == {FnName, FnZero}
ForkFallbacks == {Str(0)}
MaxInstances == 4

InitFork ==
    /\ NoSwitch
    /\ NoDiscriminate
    /\ NoMaybe
    /\ NoResult
    /\ NoPipe
    /\ NoProcedure
    /\ NoFork

\* A call that returns a NarrowSwitch, leaving the instances r.instances.
Switched(r) ==
    /\ probe = NoProbe
    /\ Len(instances) < MaxInstances
    /\ instances' = r.instances
    /\ UNCHANGED <<switchVars, discriminateVars, maybeVars, resultVars,
                   pipeVars, procedureVars, probe>>

NewSwitch(value) ==
    /\ instances = <<>>
    /\ Switched(NarrowSwitch_switch(instances, value))

CaseOn(self, narrowFn, mapFn) ==
    Switched(NarrowSwitch_case(instances, self, narrowFn, mapFn))

\* A terminal called on the instance at self, with outcome r.
Probed(op, self, fallback, r) ==
    /\ probe = NoProbe
    /\ probe' = [op |-> op, self |-> self, fallback |-> fallback,
                 kind |-> r.kind, value |-> r.value, error |-> r.error]
    /\ UNCHANGED <<switchVars, discriminateVars, maybeVars, resultVars,
                   pipeVars, procedureVars, instances>>

DefaultOn(self, fallback) ==
    /\ defaultCallable(instances[self].T)
    /\ Probed("default", self, fallback,
              [kind |-> "return", error |-> "none",
               value |-> fallbackImpl(instances[self].state, fallback).value])

ExhaustOn(self, fallback) ==
    /\ exhaustCallable(instances[self].T)
    /\ Probed("exhaust", self, fallback,
              [kind |-> "return", error |-> "none",
               value |-> fallbackImpl(instances[self].state, fallback).value])

ExhaustUnsafeOn(self) ==
    /\ exhaustUnsafeCallable(instances[self].T)
    /\ Probed("exhaustUnsafe", self, NoField,
              exhaustUnsafeImpl(instances[self].state))

NextFork ==
    \/ \E value \in ForkInputs : NewSwitch(value)
    \/ \E self \in DOMAIN instances, narrowFn \in ForkNarrowFns,
          mapFn \in ForkMapFns : CaseOn(self, narrowFn, mapFn)
    \/ \E self \in DOMAIN instances, fallback \in ForkFallbacks :
          DefaultOn(self, fallback)
    \/ \E self \in DOMAIN instances, fallback \in ForkFallbacks :
          ExhaustOn(self, fallback)
    \/ \E self \in DOMAIN instances : ExhaustUnsafeOn(self)

SpecFork == InitFork /\ [][NextFork]_vars

RECURSIVE CasesOf(_, _)
\* The case calls, in order, that led from switch(value) to the instance
\* at addr.
CasesOf(h, addr) ==
    IF h[addr].madeBy.self = 0 THEN <<>>
    ELSE Append(CasesOf(h, h[addr].madeBy.self),
                [narrowFn |-> h[addr].madeBy.narrowFn,
                 mapFn |-> h[addr].madeBy.mapFn])

\* The state an instance has by its own sequence of cases alone: matched
\* with the mapping of the first case whose predicate holds for the value.
StateBy(cases, value) ==
    LET holding == {i \in DOMAIN cases : value \in cases[i].narrowFn}
    IN  IF holding = {} THEN Searching(value)
        ELSE LET first == CHOOSE i \in holding : \A j \in holding : i <= j
             IN  Matched(Call(cases[first].mapFn, value))

OwnState(addr) ==
    StateBy(CasesOf(instances, addr), instances[addr].madeBy.switched)

\* No step changes an instance that exists.
ReceiversKept ==
    \A addr \in DOMAIN instances :
       addr \in DOMAIN instances' /\ instances'[addr] = instances[addr]

\* Every instance is in the state its own cases give it.
OwnCasesOnly == \A addr \in DOMAIN instances : instances[addr].state = OwnState(addr)

\* A terminal returns what the instance's own cases give.
OwnTerminal ==
    probe # NoProbe =>
       LET own == OwnState(probe.self)
       IN  IF own.done
           THEN probe.kind = "return" /\ probe.value = own.result
           ELSE IF probe.op = "exhaustUnsafe"
                THEN probe.kind = "throw"
                ELSE probe.kind = "return" /\ probe.value = probe.fallback

\* C29: case never changes its receiver.  A call of case (or of a
\* terminal) leaves every existing instance as it was, so however many
\* chains are grown from one partial chain, each instance's state and
\* terminal result are those of its own sequence of cases.
C29_CaseKeepsReceiver ==
    /\ []OwnCasesOnly
    /\ []OwnTerminal
    /\ [][ReceiversKept]_vars

\* One partial chain, switch(user).case(isUser, ...), was extended twice,
\* and a terminal was called on one extension: the partial chain and the
\* other extension are as they were.
C29_Witness ==
    /\ Len(instances) = 4
    /\ instances[3].madeBy.self = 2
    /\ instances[4].madeBy.self = 2
    /\ instances[3].madeBy.mapFn # instances[4].madeBy.mapFn
    /\ instances[2].state.done
    /\ probe.self = 3

=============================================================================
